---------------------------- MODULE Spec2Model ----------------------------
(***************************************************************************)
(* Verification model of the lean-agentic kernel (hash-consing arena,      *)
(* converter, type checker) and of the actor runtime (lease manager,       *)
(* mailbox, scheduler, quorum).                                            *)
(*                                                                         *)
(* The kernel and the runtime share no state, so every component has its   *)
(* own specification (SpecArena, SpecLease, ...) over its own variables;   *)
(* the variables of the other components stay at their initial values.     *)
(***************************************************************************)
EXTENDS Integers, Sequences, FiniteSets, TLC

VARIABLES
    \* ---- lean-agentic/src/arena.rs : Arena
    terms,          \* Arena.terms  : Vec<Term>, a sequence of TermKind
    cache,          \* Arena.cache  : HashMap<u64, Vec<TermId>>
    stats,          \* Arena.stats  : [allocated, cache_hits, cache_misses]
    interned,       \* history: the set of <<kind, returned TermId>> of all intern calls
    \* ---- runtime/src/orchestration.rs : LeaseManager
    leases,         \* LeaseManager.leases : resource -> Lease (or NoLease)
    agentIdCounter, \* runtime/src/lib.rs AGENT_ID_COUNTER
    now,            \* tokio::time::Instant::now()
    granted,        \* history: every lease a successful acquire handed out
    \* ---- runtime/src/mailbox.rs : Mailbox / MailboxSender / MailboxReceiver
    mbConfig,       \* MailboxConfig : [capacity, high_water, low_water]
    queue,          \* the flume channel behind tx / rx
    len,            \* Mailbox.len, the shared AtomicUsize
    spc,            \* each sender's position inside MailboxSender::send
    sentCount,      \* messages each sender has handed to send so far
    rpc,            \* the receiver's position inside Mailbox::recv
    received,       \* history: the messages recv returned, in order
    accepted,       \* history: number of sends that returned Ok
    lastFull,       \* history: the length carried by the last MailboxFull
    pressure,       \* history: len exceeded high_water and has not fallen to low_water
    \* ---- runtime/src/scheduler.rs : Scheduler
    workerCount,    \* Scheduler.worker_count
    running,        \* Scheduler.running : AtomicBool
    workers,        \* Scheduler.workers : the per-worker queues submit pushes to
    globalQueue,    \* Scheduler.global_queue : the injector
    taskCounter,    \* Scheduler.task_counter
    loops,          \* the spawned worker_loop tasks: [wid, pc, local]
    handles,        \* Scheduler.handles : the loops stop has not joined yet
    runCount,       \* history: how often Task::run polled each task
    whileRunning,   \* history: the tasks submitted while running was set
    \* ---- runtime/src/orchestration.rs : quorum
    qAgents,        \* agents.len()
    qThreshold,     \* threshold
    qTimeout,       \* timeout
    qClock,         \* tokio::time::Instant::now()
    qDeadline,      \* deadline
    qpc,            \* position of the quorum call: init, waiting, ok, notreached
    fwd,            \* position of the task spawned for each agent
    agentMailbox,   \* requests queued in each agent's mailbox
    agentTook,      \* the agents whose behavior has taken the request from its mailbox
    qChan,          \* number of () signals in the flume channel (tx, rx)
    qReceived,      \* received
    qResponses,     \* responses : Vec<R>
    qErrReceived,   \* the received field of the returned QuorumNotReached
    \* ---- leanr-core/src/conversion.rs : a Converter used on its own
    conv,           \* the Converter: fuel, cache, stats
    convEnv,        \* the Environment handed to its calls
    whnfCalls,      \* history: number of whnf calls made on conv
    whnfLast,       \* history: the last whnf call, the converter before it, its result
    \* ---- leanr-core/src/typechecker.rs : a TypeChecker and an Environment
    tc,             \* TypeChecker.converter
    kEnv,           \* Environment.declarations
    declChecks,     \* history: number of check_declaration calls
    declLast,       \* history: the last check_declaration call and its result
    \* ---- leanr-core/src/unification.rs : Unifier
    uSubst,         \* Unifier.subst.assignments : HashMap<MetaVarId, TermId>
    uConstraints,   \* Unifier.constraints : VecDeque<Constraint>
    uMvarTypes,     \* Unifier.mvar_types : HashMap<MetaVarId, TermId>
    uPc,            \* position of the caller: idle, or inside the loop of solve
    uAdded,         \* history: number of constraints the caller has added
    uBatch,         \* history: the Unify constraints the current or last solve popped
    uLast,          \* history: how the last solve returned: none, ok, or its error
    uStep,          \* history: the last Unify constraint solve handled, and its result
    \* ---- leanr-elab/src/lib.rs : elaborate_decl on one Environment
    eEnv,           \* the Environment handed to elaborate_decl
    eAdded,         \* history: the declarations added to it, in order
    eCalls,         \* history: number of elaborate_decl calls
    eLast,          \* history: the last call, its result and the elaborator it dropped
    \* ---- leanr-core/src/typechecker.rs : a TypeChecker whose infer is called
    iTc,            \* TypeChecker.converter
    iEnv,           \* the Environment handed to its calls
    iCalls,         \* history: number of infer calls
    iLast,          \* history: the last infer call and its result
    \* ---- lean-agentic/src/level.rs : LevelArena::normalize
    lv,             \* the level handed to normalize, the build, and what two calls returned
    \* ---- leanr-core/src/conversion.rs : a Converter reducing applications of lambdas
    bCv,            \* the Converter
    bEnv,           \* the Environment handed to its calls
    bCalls,         \* history: number of whnf calls on applications
    bLast,          \* history: the last application, its result, and the result for the substituted body
    \* ---- leanr-core/src/conversion.rs : is_def_eq as a relation
    de,             \* an environment, a context, three terms, and what is_def_eq returned on them
    \* ---- runtime/src/orchestration.rs spawn : one agent, its Mailbox and its AgentRefs
    clRefs,         \* the AgentRef handles alive (each holds a MailboxSender)
    clMailbox,      \* the behavior still holds the Mailbox (tx and rx)
    clReceiver,     \* the behavior holds a MailboxReceiver
    clQueue,        \* number of messages in the flume channel
    clSends,        \* history: number of sends made
    clPc,           \* the recv the behavior waits in: idle, mailbox, receiver
    clLast,         \* history: what the last recv returned
    clSendLast,     \* history: what the last send returned
    \* ---- leanr-core/src/environment.rs : an Environment that add_decl is called on
    envDecls,       \* Environment.declarations
    envAdds,        \* history: number of add_decl calls
    envLast,        \* history: the last add_decl call, the declarations before it, its result
    \* ---- A symbol table (leanr-core/src/symbol.rs)
    symStrings,     \* SymbolTable.strings
    symLookup,      \* SymbolTable.lookup: string -> id
    symPc,          \* where each thread is in intern
    symArg,         \* the string each thread passed to intern
    symRets,        \* the calls that returned: string, id, path, thread
    symCalls,       \* number of intern calls made
    \* ---- A context and its scope guard (leanr-core/src/context.rs)
    cgEntries,      \* Context.entries
    cgGuard,        \* the live ContextGuard and its mark
    cgBefore,       \* the entries when the guard was created
    cgPushed,       \* entries pushed through the live guard
    cgOps,          \* number of operations made on the context
    cgLast,         \* the last drop of a guard
    \* ---- A topology graph (runtime/src/topology.rs)
    topType,        \* Topology.topology_type
    topAgents,      \* Topology.agents, by id
    topConn,        \* Topology.connections: id -> ids
    \* ---- Capability-tagged values (runtime/src/capabilities.rs)
    capValues,      \* the Tracked and Message values made so far
    capPayloads,    \* number of payloads made by new
    capShared,      \* what the last share returned
    \* ---- The expression parser (leanr-syntax/src/parser.rs)
    psTokens,       \* Parser.tokens
    psLast,         \* the result of parse_expr
    \* ---- The normalization cache (leanr-eval-lite/src/cache.rs)
    nc,             \* the NormalizationCache: cache, capacity, access_order
    ncInserts,      \* number of insert calls made
    \* ---- Tasks and their futures (runtime/src/scheduler.rs)
    tkQueue,        \* the tasks in the worker queues
    tkFuture,       \* Task.future of each task
    tkPolls,        \* history: polls of each task future
    tkReady,        \* history: the future returned Ready
    tkWoken,        \* history: wake calls on the wakers of each task
    tkCounter,      \* Scheduler.task_counter
    \* ---- A call of Converter::substitute (leanr-core/src/conversion.rs)
    sbTerm,         \* the term substituted in
    sbIdx,          \* the index replaced
    sbReplacement,  \* the replacement
    sbLast,         \* the result of the call
    \* ---- is_def_eq on two sorts (leanr-core/src/conversion.rs)
    seLeft,         \* the level of the first sort
    seRight,        \* the level of the second sort
    seLast          \* the result of the call

arenaVars == <<terms, cache, stats, interned>>
leaseVars == <<leases, agentIdCounter, now, granted>>
mailboxVars == <<mbConfig, queue, len, spc, sentCount, rpc, received, accepted,
                 lastFull, pressure>>
schedVars == <<workerCount, running, workers, globalQueue, taskCounter, loops,
               handles, runCount, whileRunning>>
quorumVars == <<qAgents, qThreshold, qTimeout, qClock, qDeadline, qpc, fwd,
                agentMailbox, agentTook, qChan, qReceived, qResponses, qErrReceived>>
convVars == <<conv, convEnv, whnfCalls, whnfLast>>
kernelVars == <<tc, kEnv, declChecks, declLast>>
\* the unifier and the components added after it
unifierVars == <<uSubst, uConstraints, uMvarTypes, uPc, uAdded, uBatch, uLast, uStep>>
elabVars == <<eEnv, eAdded, eCalls, eLast>>
inferVars == <<iTc, iEnv, iCalls, iLast>>
levelVars == <<lv>>
betaVars == <<bCv, bEnv, bCalls, bLast>>
defEqVars == <<de>>
closeVars == <<clRefs, clMailbox, clReceiver, clQueue, clSends, clPc, clLast, clSendLast>>
envVars == <<envDecls, envAdds, envLast>>
symbolVars == <<symStrings, symLookup, symPc, symArg, symRets, symCalls>>
guardVars == <<cgEntries, cgGuard, cgBefore, cgPushed, cgOps, cgLast>>
topologyVars == <<topType, topAgents, topConn>>
capsVars == <<capValues, capPayloads, capShared>>
parserVars == <<psTokens, psLast>>
ncacheVars == <<nc, ncInserts>>
pollVars == <<tkQueue, tkFuture, tkPolls, tkReady, tkWoken, tkCounter>>
substVars == <<sbTerm, sbIdx, sbReplacement, sbLast>>
sortEqVars == <<seLeft, seRight, seLast>>
frontVars == <<unifierVars, elabVars, inferVars, levelVars, betaVars, defEqVars, closeVars, envVars, symbolVars, guardVars, topologyVars, capsVars, parserVars, ncacheVars, pollVars, substVars, sortEqVars>>
coreVars == <<arenaVars, leaseVars, mailboxVars, schedVars, quorumVars, convVars, kernelVars>>
vars == <<coreVars, frontVars>>

(***************************************************************************)
(* Bounds of the model.                                                    *)
(***************************************************************************)
MaxTerms == 3        \* terms allocated in the arena
MaxVarIdx == 1       \* de Bruijn indices 0..MaxVarIdx handed to mk_var
MaxNat == 0          \* literals 0..MaxNat handed to mk_nat
MaxTime == 3         \* instants 0..MaxTime
MaxTtl == 2          \* lease durations 0..MaxTtl
MaxAcquires == 3     \* acquire calls (each draws a fresh holder id)
MaxCapacity == 3     \* mailbox capacities 1..MaxCapacity
MaxSends == 2        \* messages each sender sends
MaxWorkers == 2      \* scheduler worker counts 1..MaxWorkers
MaxTasks == 2        \* tasks submitted to the scheduler
MaxStarts == 2       \* calls of Scheduler::start that spawn worker loops
MaxAgents == 3       \* agents handed to quorum
MaxQTime == 2        \* instants 0..MaxQTime of the quorum clock, and timeouts
MaxFuel == 4         \* fuel 0..MaxFuel handed to Converter::with_fuel
MaxCalls == 2        \* whnf calls made on one Converter
MaxChecks == 3       \* check_declaration calls made on one TypeChecker
MaxConstraints == 2  \* constraints added to one Unifier
MaxElabs == 3        \* elaborate_decl calls on one Environment
MaxInfers == 2       \* infer calls made on one TypeChecker
MaxBetas == 2        \* whnf calls on applications made on one Converter
DefEqFuel == 16      \* fuel of the converter an is_def_eq query is made on
MaxAdds == 3         \* add_decl calls made on one Environment
MaxInterners == 2
MaxInterns == 4
MaxGuardOps == 5
MaxTopologyIds == 3
MaxTopologyAdds == 4
MaxValues == 3
MaxTokens == 5
MaxCacheTerms == 4
MaxCacheCapacity == 2
MaxInserts == 5
MaxPollTasks == 3
MaxPendings == 2
MaxWakes == 2
MaxSubstIdx == 1
MaxRefs == 2         \* AgentRef handles of one agent alive at a time
MaxCloseSends == 2   \* sends made through the AgentRefs of one agent
MaxLevelDepth == 2   \* constructors on a path of the levels handed to normalize

Resources == {"r1", "r2"}

-----------------------------------------------------------------------------
(***************************************************************************)
(* Arena: hash-consing of terms (lean-agentic/src/arena.rs).               *)
(* A TermId is the index of the term in Arena.terms, counted from 0.       *)
(***************************************************************************)

\* The TermKinds a caller can hand to intern when the arena holds n terms:
\* sub-terms are TermIds of terms already interned.
Kinds(n) ==
    {<<"Var", i>> : i \in 0..MaxVarIdx}
    \cup {<<"Nat", k>> : k \in 0..MaxNat}
    \cup {<<"App", f, a>> : f \in 0..(n - 1), a \in 0..(n - 1)}
    \cup {<<"Lam", ty, b>> : ty \in 0..(n - 1), b \in 0..(n - 1)}

\* Term::new computes a 64-bit hash of the kind.  Distinct kinds can share a
\* hash; the model uses a hash with two values so that buckets hold several
\* candidates and the probe's comparison of kinds is exercised.
NumBuckets == 2

FieldSum(kind) ==
    IF Len(kind) = 2 THEN kind[2] ELSE kind[2] + kind[3]

TermHash(kind) == FieldSum(kind) % NumBuckets

\* A comparison that takes every candidate of the bucket for the term
KindEqMut(k1, k2) == TRUE

\* existing.kind == term.kind : derived PartialEq on TermKind
KindEq(k1, k2) == k1 = k2

\* The probe of intern: the first candidate of the hash bucket whose stored
\* kind equals the new kind, or -1.
RECURSIVE Probe(_, _, _)
Probe(candidates, ts, kind) ==
    IF candidates = <<>> THEN -1
    ELSE IF KindEq(ts[Head(candidates) + 1], kind) THEN Head(candidates)
    ELSE Probe(Tail(candidates), ts, kind)

Bucket(c, h) == IF h \in DOMAIN c THEN c[h] ELSE <<>>

ArenaInit ==
    /\ terms = <<>>
    /\ cache = <<>>
    /\ stats = [allocated |-> 0, cache_hits |-> 0, cache_misses |-> 0]
    /\ interned = {}

\* Arena::intern(kind), and through it every mk_* constructor.
Intern(kind) ==
    LET h == TermHash(kind)
        hit == Probe(Bucket(cache, h), terms, kind)
    IN  IF hit # -1
        THEN /\ interned' = interned \cup {<<kind, hit>>}
             /\ stats' = [stats EXCEPT !.cache_hits = IF @ < MaxTerms THEN @ + 1 ELSE @]
             /\ UNCHANGED <<terms, cache>>
        ELSE /\ Len(terms) < MaxTerms
             /\ terms' = Append(terms, kind)
             /\ cache' = [x \in (DOMAIN cache) \cup {h} |->
                            IF x = h THEN Append(Bucket(cache, h), Len(terms))
                            ELSE cache[x]]
             /\ stats' = [stats EXCEPT !.allocated = @ + 1, !.cache_misses = @ + 1]
             /\ interned' = interned \cup {<<kind, Len(terms)>>}

ArenaIntern == \E kind \in Kinds(Len(terms)) : Intern(kind)

ArenaNext == ArenaIntern /\ UNCHANGED <<leaseVars, mailboxVars, schedVars, quorumVars, convVars, kernelVars, frontVars>>

-----------------------------------------------------------------------------
(***************************************************************************)
(* LeaseManager (runtime/src/orchestration.rs) and the global id counter   *)
(* (runtime/src/lib.rs).  The write lock taken on entry makes acquire and   *)
(* release atomic.                                                         *)
(***************************************************************************)

NoLease == [holder |-> 0, expires |-> -1]

LeaseInit ==
    /\ leases = [r \in Resources |-> NoLease]
    /\ agentIdCounter = 1
    /\ now = 0
    /\ granted = {}

\* A test that takes every existing lease for expired
StillLeasedMut(lease, t) == FALSE

\* A test that takes no existing lease for expired
StillLeasedForever(lease, t) == lease # NoLease

\* existing.expires > Instant::now() : the existing lease still binds
StillLeased(lease, t) == lease # NoLease /\ lease.expires > t

\* LeaseManager::acquire(resource, ttl).  allocate_agent_id runs before the
\* check, so a failed acquire consumes an id too.
Acquire(r, ttl) ==
    /\ agentIdCounter <= MaxAcquires
    /\ agentIdCounter' = agentIdCounter + 1
    /\ IF StillLeased(leases[r], now)
       THEN UNCHANGED <<leases, granted>>
       ELSE /\ leases' = [leases EXCEPT ![r] =
                            [holder |-> agentIdCounter, expires |-> now + ttl]]
            /\ granted' = granted \cup
                            {[resource |-> r, holder |-> agentIdCounter,
                              expires |-> now + ttl, released |-> FALSE]}
    /\ UNCHANGED now

\* A release that does not compare the holder
ReleaseAnyHolder(r, holder) ==
    /\ leases' = [leases EXCEPT ![r] = NoLease]
    /\ granted' = {IF g.resource = r /\ g.holder = leases[r].holder
                   THEN [g EXCEPT !.released = TRUE] ELSE g : g \in granted}
    /\ UNCHANGED <<agentIdCounter, now>>

\* LeaseManager::release(resource, holder)
Release(r, holder) ==
    /\ IF leases[r] # NoLease /\ leases[r].holder = holder
       THEN /\ leases' = [leases EXCEPT ![r] = NoLease]
            /\ granted' = {IF g.resource = r /\ g.holder = holder
                           THEN [g EXCEPT !.released = TRUE] ELSE g : g \in granted}
       ELSE UNCHANGED <<leases, granted>>
    /\ UNCHANGED <<agentIdCounter, now>>

\* Passage of time.
Tick ==
    /\ now < MaxTime
    /\ now' = now + 1
    /\ UNCHANGED <<leases, agentIdCounter, granted>>

LeaseAcquire == \E r \in Resources, ttl \in 0..MaxTtl : Acquire(r, ttl)

LeaseRelease == \E r \in Resources, h \in 1..MaxAcquires : Release(r, h)

LeaseNext ==
    (LeaseAcquire \/ LeaseRelease \/ Tick) /\ UNCHANGED <<arenaVars, mailboxVars, schedVars, quorumVars, convVars, kernelVars, frontVars>>

-----------------------------------------------------------------------------
(***************************************************************************)
(* Mailbox (runtime/src/mailbox.rs).  send is three steps: the load of the  *)
(* length, the channel's send_async and the fetch_add; recv is two: the     *)
(* channel's recv_async and the fetch_sub.  Other senders and the receiver  *)
(* can run between them.  len is an AtomicUsize: a negative value of the    *)
(* model variable stands for the wrapped value 2^64 + len.                  *)
(***************************************************************************)
Senders == {"s1", "s2"}

MailboxConfigs ==
    {[capacity |-> c, high_water |-> h, low_water |-> l] :
        c \in 1..MaxCapacity, h \in 1..MaxCapacity, l \in 0..MaxCapacity}

\* The configurations section 4.11 admits; the mailbox is created idle.
MailboxIdle(cfg) ==
    /\ mbConfig = cfg
    /\ queue = <<>>
    /\ len = 0
    /\ spc = [s \in Senders |-> "idle"]
    /\ sentCount = [s \in Senders |-> 0]
    /\ rpc = "idle"
    /\ received = <<>>
    /\ accepted = 0
    /\ lastFull = -1
    /\ pressure = FALSE

DefaultMailboxConfig == [capacity |-> 1, high_water |-> 1, low_water |-> 0]

MailboxInit ==
    \E cfg \in MailboxConfigs :
        /\ cfg.high_water <= cfg.capacity
        /\ cfg.low_water < cfg.high_water
        /\ MailboxIdle(cfg)

\* current_len > self.config.high_water, on usize values
AboveHighWater(current_len, cfg) ==
    current_len < 0 \/ current_len > cfg.high_water

\* A channel that puts the message at the front
EnqueueMut(q, msg) == <<msg>> \o q

\* self.tx.send_async(iso_msg): the channel appends at the back
Enqueue(q, msg) == Append(q, msg)

\* MailboxSender::send, first step: load the length and compare it with the
\* high-water mark.  Above it the send returns MailboxFull(current_len) and the
\* message is dropped.
SendLoad(s) ==
    /\ spc[s] = "idle"
    /\ sentCount[s] < MaxSends
    /\ sentCount' = [sentCount EXCEPT ![s] = @ + 1]
    /\ IF AboveHighWater(len, mbConfig)
       THEN /\ lastFull' = len
            /\ UNCHANGED spc
       ELSE /\ spc' = [spc EXCEPT ![s] = "checked"]
            /\ UNCHANGED lastFull
    /\ UNCHANGED <<mbConfig, queue, len, rpc, received, accepted, pressure>>

\* second step: send_async completes once the bounded channel has room
SendEnqueue(s) ==
    /\ spc[s] = "checked"
    /\ Len(queue) < mbConfig.capacity
    /\ queue' = Enqueue(queue, <<s, sentCount[s]>>)
    /\ spc' = [spc EXCEPT ![s] = "enqueued"]
    /\ UNCHANGED <<mbConfig, len, sentCount, rpc, received, accepted, lastFull, pressure>>

\* third step: len.fetch_add(1), and the send returns Ok
SendIncr(s) ==
    /\ spc[s] = "enqueued"
    /\ len' = len + 1
    /\ spc' = [spc EXCEPT ![s] = "idle"]
    /\ accepted' = accepted + 1
    /\ pressure' = IF len' > mbConfig.high_water THEN TRUE ELSE pressure
    /\ UNCHANGED <<mbConfig, queue, sentCount, rpc, received, lastFull>>

\* Mailbox::recv, first step: recv_async takes the message at the front
RecvTake ==
    /\ rpc = "idle"
    /\ queue # <<>>
    /\ received' = Append(received, Head(queue))
    /\ queue' = Tail(queue)
    /\ rpc' = "taken"
    /\ UNCHANGED <<mbConfig, len, spc, sentCount, accepted, lastFull, pressure>>

\* second step: len.fetch_sub(1), and recv returns the message
RecvDecr ==
    /\ rpc = "taken"
    /\ len' = len - 1
    /\ rpc' = "idle"
    /\ pressure' = IF len' >= 0 /\ len' <= mbConfig.low_water THEN FALSE ELSE pressure
    /\ UNCHANGED <<mbConfig, queue, spc, sentCount, received, accepted, lastFull>>

MailboxNext ==
    /\ \/ \E s \in Senders : SendLoad(s)
       \/ \E s \in Senders : SendEnqueue(s)
       \/ \E s \in Senders : SendIncr(s)
       \/ RecvTake
       \/ RecvDecr
    /\ UNCHANGED <<arenaVars, leaseVars, schedVars, quorumVars, convVars, kernelVars, frontVars>>

-----------------------------------------------------------------------------
(***************************************************************************)
(* Scheduler (runtime/src/scheduler.rs).  Worker ids run from 0.  Each      *)
(* spawned worker_loop is a record [wid, pc, local]: its worker id, its     *)
(* position (top: at the while condition, body: inside an iteration,        *)
(* sleep: in yield_now / sleep, exit: returned) and its local_worker        *)
(* queue, which the loop creates itself.                                    *)
(***************************************************************************)
WorkerIds == 0..(workerCount - 1)

TaskIds == 1..MaxTasks

\* Scheduler::with_workers(worker_count)
SchedNew(n) ==
    /\ workerCount = n
    /\ running = FALSE
    /\ workers = [w \in 0..(n - 1) |-> <<>>]
    /\ globalQueue = <<>>
    /\ taskCounter = 1
    /\ loops = <<>>
    /\ handles = {}
    /\ runCount = [t \in TaskIds |-> 0]
    /\ whileRunning = {}

SchedInit == \E n \in 1..MaxWorkers : SchedNew(n)

RECURSIVE SpawnLoops(_, _)
SpawnLoops(ls, n) ==
    IF n = 0 THEN ls
    ELSE Append(SpawnLoops(ls, n - 1), [wid |-> n - 1, pc |-> "top", local |-> <<>>])

\* Scheduler::start: the compare_exchange, then one worker_loop per worker id
Start ==
    /\ ~running
    /\ Len(loops) < MaxStarts * workerCount
    /\ running' = TRUE
    /\ loops' = SpawnLoops(loops, workerCount)
    /\ handles' = handles \cup (Len(loops) + 1)..(Len(loops) + workerCount)
    /\ UNCHANGED <<workerCount, workers, globalQueue, taskCounter, runCount, whileRunning>>

\* Scheduler::start when the compare_exchange fails: already running
StartAgain ==
    /\ running
    /\ UNCHANGED schedVars

\* Scheduler::stop: the store, then the join of every handle
Stop ==
    /\ running
    /\ running' = FALSE
    /\ UNCHANGED <<workerCount, workers, globalQueue, taskCounter, loops, handles,
                   runCount, whileRunning>>

StopJoin ==
    /\ ~running
    /\ handles # {}
    /\ \A i \in handles : loops[i].pc = "exit"
    /\ handles' = {}
    /\ UNCHANGED <<workerCount, running, workers, globalQueue, taskCounter, loops,
                   runCount, whileRunning>>


\* Scheduler::submit_with_priority: worker_id is fastrand::usize(..worker_count)
Submit(w) ==
    /\ taskCounter <= MaxTasks
    /\ taskCounter' = taskCounter + 1
    /\ workers' = [workers EXCEPT ![w] = Append(@, taskCounter)]
    /\ whileRunning' = IF running THEN whileRunning \cup {taskCounter} ELSE whileRunning
    /\ UNCHANGED <<workerCount, running, globalQueue, loops, handles, runCount>>

\* Task::run: one poll of the task's future.
TaskRun(rc, task) == [rc EXCEPT ![task] = @ + 1]

\* while running.load(Relaxed)
WorkerTop(i) ==
    /\ loops[i].pc = "top"
    /\ loops' = [loops EXCEPT ![i].pc = IF running THEN "body" ELSE "exit"]
    /\ UNCHANGED <<workerCount, running, workers, globalQueue, taskCounter, handles,
                   runCount, whileRunning>>

\* Scheduler::steal_work: the first of the drawn victims that is another
\* worker and whose queue holds a task, or -1.
RECURSIVE FirstVictim(_, _, _)
FirstVictim(victims, wid, qs) ==
    IF victims = <<>> THEN -1
    ELSE IF Head(victims) # wid /\ qs[Head(victims)] # <<>> THEN Head(victims)
    ELSE FirstVictim(Tail(victims), wid, qs)

StealAttempts(n) == IF n <= 1 THEN 0 ELSE n \div 2

\* One iteration of worker_loop that finds a task: in the local queue, else
\* in the global queue, else by stealing from victim v.
WorkerRun(i, victims) ==
    LET l == loops[i]
        v == FirstVictim(victims, l.wid, workers)
    IN  /\ l.pc = "body"
        /\ IF l.local # <<>>
           THEN /\ runCount' = TaskRun(runCount, Head(l.local))
                /\ loops' = [loops EXCEPT ![i].local = Tail(@), ![i].pc = "top"]
                /\ UNCHANGED <<workers, globalQueue>>
           ELSE IF globalQueue # <<>>
           THEN /\ runCount' = TaskRun(runCount, Head(globalQueue))
                /\ globalQueue' = Tail(globalQueue)
                /\ loops' = [loops EXCEPT ![i].pc = "top"]
                /\ UNCHANGED workers
           ELSE /\ v # -1
                /\ runCount' = TaskRun(runCount, Head(workers[v]))
                /\ workers' = [workers EXCEPT ![v] = Tail(@)]
                /\ loops' = [loops EXCEPT ![i].pc = "top"]
                /\ UNCHANGED globalQueue
        /\ UNCHANGED <<workerCount, running, taskCounter, handles, whileRunning>>

\* One iteration that finds nothing: yield_now, then sleep
WorkerIdle(i, victims) ==
    LET l == loops[i]
    IN  /\ l.pc = "body"
        /\ l.local = <<>>
        /\ globalQueue = <<>>
        /\ FirstVictim(victims, l.wid, workers) = -1
        /\ loops' = [loops EXCEPT ![i].pc = "sleep"]
        /\ UNCHANGED <<workerCount, running, workers, globalQueue, taskCounter, handles,
                       runCount, whileRunning>>

\* the sleep of 100 microseconds ends
WorkerWake(i) ==
    /\ loops[i].pc = "sleep"
    /\ loops' = [loops EXCEPT ![i].pc = "top"]
    /\ UNCHANGED <<workerCount, running, workers, globalQueue, taskCounter, handles,
                   runCount, whileRunning>>

\* The victims one call of steal_work draws: num_stealers / 2 random ids.
VictimDraws == [1..StealAttempts(workerCount) -> WorkerIds]

LoopIds == 1..Len(loops)

SchedStep ==
    \/ Start
    \/ StartAgain
    \/ Stop
    \/ StopJoin
    \/ \E w \in WorkerIds : Submit(w)
    \/ \E i \in LoopIds : WorkerTop(i)
    \/ \E i \in LoopIds, victims \in VictimDraws : WorkerRun(i, victims)
    \/ \E i \in LoopIds, victims \in VictimDraws : WorkerIdle(i, victims)
    \/ \E i \in LoopIds : WorkerWake(i)

SchedNext == SchedStep /\ UNCHANGED <<arenaVars, leaseVars, mailboxVars, quorumVars, convVars, kernelVars, frontVars>>

\* tokio runs every spawned worker loop again and again, and the random
\* draws of steal_work hit every victim again and again.
SchedFairness ==
    /\ \A i \in 1..(MaxStarts * MaxWorkers) :
          /\ WF_vars(i \in LoopIds /\ WorkerTop(i) /\ UNCHANGED <<arenaVars, leaseVars, mailboxVars, quorumVars, convVars, kernelVars, frontVars>>)
          /\ WF_vars(i \in LoopIds /\ WorkerWake(i) /\ UNCHANGED <<arenaVars, leaseVars, mailboxVars, quorumVars, convVars, kernelVars, frontVars>>)
          /\ WF_vars(i \in LoopIds /\ (\E victims \in VictimDraws : WorkerIdle(i, victims))
                       /\ UNCHANGED <<arenaVars, leaseVars, mailboxVars, quorumVars, convVars, kernelVars, frontVars>>)
          /\ \A v \in 0..(MaxWorkers - 1) :
                SF_vars(/\ i \in LoopIds
                        /\ v \in WorkerIds
                        /\ WorkerRun(i, [k \in 1..StealAttempts(workerCount) |-> v])
                        /\ UNCHANGED <<arenaVars, leaseVars, mailboxVars, quorumVars, convVars, kernelVars, frontVars>>)

-----------------------------------------------------------------------------
(***************************************************************************)
(* quorum (runtime/src/orchestration.rs).  For every agent the call spawns  *)
(* a task that sends the request to the agent's mailbox and, when that send *)
(* returned Ok, puts () into the channel (tx, rx); the call counts what     *)
(* arrives on rx.  The agents run their own behavior: an agent can take the *)
(* request from its mailbox at any time, or never.                          *)
(***************************************************************************)
AgentIds == 1..qAgents

QuorumNew(n, k, t) ==
    /\ qAgents = n
    /\ qThreshold = k
    /\ qTimeout = t
    /\ qClock = 0
    /\ qDeadline = 0
    /\ qpc = "init"
    /\ fwd = [a \in 1..n |-> "none"]
    /\ agentMailbox = [a \in 1..n |-> 0]
    /\ agentTook = {}
    /\ qChan = 0
    /\ qReceived = 0
    /\ qResponses = <<>>
    /\ qErrReceived = -1

QuorumInit ==
    \E n \in 1..MaxAgents, k \in 0..(MaxAgents + 1), t \in 0..MaxQTime : QuorumNew(n, k, t)

\* quorum, up to the wait: the threshold check, the spawns, the deadline
QuorumCall ==
    /\ qpc = "init"
    /\ IF qThreshold > qAgents
       THEN /\ qpc' = "notreached"
            /\ qErrReceived' = 0
            /\ UNCHANGED <<fwd, qDeadline>>
       ELSE /\ qpc' = "waiting"
            /\ fwd' = [a \in AgentIds |-> "spawned"]
            /\ qDeadline' = qClock + qTimeout
            /\ UNCHANGED qErrReceived
    /\ UNCHANGED <<qAgents, qThreshold, qTimeout, qClock, agentMailbox, agentTook, qChan,
                   qReceived, qResponses>>

\* the spawned task: agent.send(request_clone) returns Ok
FwdSend(a) ==
    /\ fwd[a] = "spawned"
    /\ fwd' = [fwd EXCEPT ![a] = "sent"]
    /\ agentMailbox' = [agentMailbox EXCEPT ![a] = @ + 1]
    /\ UNCHANGED <<qAgents, qThreshold, qTimeout, qClock, qDeadline, qpc, agentTook, qChan,
                   qReceived, qResponses, qErrReceived>>

\* the spawned task: agent.send(request_clone) returns an error (mailbox full
\* or closed), and the task ends without a signal
FwdSendFails(a) ==
    /\ fwd[a] = "spawned"
    /\ fwd' = [fwd EXCEPT ![a] = "done"]
    /\ UNCHANGED <<qAgents, qThreshold, qTimeout, qClock, qDeadline, qpc, agentMailbox,
                   agentTook, qChan, qReceived, qResponses, qErrReceived>>

\* the spawned task: tx_clone.send_async(())
FwdSignal(a) ==
    /\ fwd[a] = "sent"
    /\ fwd' = [fwd EXCEPT ![a] = "done"]
    /\ qChan' = qChan + 1
    /\ UNCHANGED <<qAgents, qThreshold, qTimeout, qClock, qDeadline, qpc, agentMailbox,
                   agentTook, qReceived, qResponses, qErrReceived>>

\* the agent's behavior takes the request from its mailbox
AgentTake(a) ==
    /\ agentMailbox[a] > 0
    /\ agentMailbox' = [agentMailbox EXCEPT ![a] = @ - 1]
    /\ agentTook' = agentTook \cup {a}
    /\ UNCHANGED <<qAgents, qThreshold, qTimeout, qClock, qDeadline, qpc, fwd, qChan,
                   qReceived, qResponses, qErrReceived>>

\* while received < threshold: timeout_at(deadline, rx.recv_async()) returns
\* Ok(Ok(_)).  tokio polls the receive before the deadline.
QuorumRecv ==
    /\ qpc = "waiting"
    /\ qReceived < qThreshold
    /\ qChan > 0
    /\ qChan' = qChan - 1
    /\ qReceived' = qReceived + 1
    /\ UNCHANGED <<qAgents, qThreshold, qTimeout, qClock, qDeadline, qpc, fwd, agentMailbox,
                   agentTook, qResponses, qErrReceived>>

\* timeout_at returns Err(Elapsed): QuorumNotReached { received, required }
QuorumTimeout ==
    /\ qpc = "waiting"
    /\ qReceived < qThreshold
    /\ qChan = 0
    /\ qClock >= qDeadline
    /\ qpc' = "notreached"
    /\ qErrReceived' = qReceived
    /\ UNCHANGED <<qAgents, qThreshold, qTimeout, qClock, qDeadline, fwd, agentMailbox,
                   agentTook, qChan, qReceived, qResponses>>

\* The test after the loop: received >= threshold
QuorumReached(got, k) == got >= k

\* the loop is left with received >= threshold: Ok(responses)
QuorumReturn ==
    /\ qpc = "waiting"
    /\ ~(qReceived < qThreshold)
    /\ IF QuorumReached(qReceived, qThreshold)
       THEN qpc' = "ok" /\ UNCHANGED qErrReceived
       ELSE qpc' = "notreached" /\ qErrReceived' = qReceived
    /\ UNCHANGED <<qAgents, qThreshold, qTimeout, qClock, qDeadline, fwd, agentMailbox,
                   agentTook, qChan, qReceived, qResponses>>

QuorumTick ==
    /\ qClock < MaxQTime
    /\ qClock' = qClock + 1
    /\ UNCHANGED <<qAgents, qThreshold, qTimeout, qDeadline, qpc, fwd, agentMailbox,
                   agentTook, qChan, qReceived, qResponses, qErrReceived>>

QuorumNext ==
    /\ \/ QuorumCall
       \/ \E a \in AgentIds : FwdSend(a)
       \/ \E a \in AgentIds : FwdSendFails(a)
       \/ \E a \in AgentIds : FwdSignal(a)
       \/ \E a \in AgentIds : AgentTake(a)
       \/ QuorumRecv
       \/ QuorumTimeout
       \/ QuorumReturn
       \/ QuorumTick
    /\ UNCHANGED <<arenaVars, leaseVars, mailboxVars, schedVars, convVars, kernelVars, frontVars>>

-----------------------------------------------------------------------------
(***************************************************************************)
(* The kernel (leanr-core): terms, contexts, environments, conversion and  *)
(* type checking.  Terms and levels are interned (hash-consed), so two     *)
(* TermIds, or two LevelIds, are equal exactly when the terms are equal    *)
(* structurally; the model writes a term as its structure.  A term is a    *)
(* tuple whose first component is the name of its TermKind variant.        *)
(***************************************************************************)
None == <<"None">>

Some(x) == <<"Some", x>>

\* LevelArena::zero, ::succ, ::imax intern the level as it is given
LZero == <<"Zero">>

LSucc(l) == <<"Succ", l>>

LIMax(a, b) == <<"IMax", a, b>>

\* Level::Const, Level::Param, LevelArena::max
LConst(n) == <<"Const", n>>

LParam(n) == <<"Param", n>>

LMax(a, b) == <<"Max", a, b>>

\* A u32 as its two 16-bit halves <<high, low>>, the value being
\* high * 65536 + low
U32(n) == <<n \div 65536, n % 65536>>

U32Value(n) == n[1] * 65536 + n[2]

\* u32::MAX
U32Max == <<65535, 65535>>

\* Level::from_u32
from_u32(n) == IF n = U32(0) THEN LZero ELSE LConst(n)

\* LevelArena::constant
constant(n) == from_u32(n)

\* A panic of the call (the overflow check of a debug build)
Panicked == <<"Panic">>

\* n + 1 on u32: a build with overflow checks panics on u32::MAX, a build
\* without them wraps to 0
succ_u32(overflow_checks, n) ==
    IF n[2] < 65535 THEN constant(<<n[1], n[2] + 1>>)
    ELSE IF n[1] < 65535 THEN constant(<<n[1] + 1, 0>>)
    ELSE IF overflow_checks THEN Panicked ELSE constant(U32(0))

\* u32::max
u32_max(n, m) ==
    IF n[1] > m[1] \/ (n[1] = m[1] /\ n[2] >= m[2]) THEN n ELSE m

\* A successor put around the folded constant
normalize_succ_unfolded(overflow_checks, normalized) ==
    IF normalized = Panicked THEN Panicked
    ELSE IF normalized[1] = "Const" THEN LSucc(succ_u32(overflow_checks, normalized[2]))
    ELSE LSucc(normalized)

\* LevelArena::normalize, the arms of its match once the parts are normalized
normalize_succ(overflow_checks, normalized) ==
    IF normalized = Panicked THEN Panicked
    ELSE IF normalized[1] = "Const" THEN succ_u32(overflow_checks, normalized[2])
    ELSE LSucc(normalized)

normalize_max(a_norm, b_norm) ==
    IF a_norm = Panicked \/ b_norm = Panicked THEN Panicked
    ELSE IF a_norm[1] = "Const" /\ b_norm[1] = "Const"
    THEN constant(u32_max(a_norm[2], b_norm[2]))
    ELSE LMax(a_norm, b_norm)

normalize_imax(a_norm, b_norm) ==
    IF a_norm = Panicked \/ b_norm = Panicked THEN Panicked
    ELSE IF b_norm = LZero THEN LZero
    ELSE IF a_norm[1] = "Const" /\ b_norm[1] = "Const"
    THEN constant(u32_max(a_norm[2], b_norm[2]))
    ELSE LIMax(a_norm, b_norm)

\* LevelArena::normalize
RECURSIVE normalize(_, _)
normalize(overflow_checks, id) ==
    CASE id[1] = "Succ" -> normalize_succ(overflow_checks, normalize(overflow_checks, id[2]))
      [] id[1] = "Max" ->
            normalize_max(normalize(overflow_checks, id[2]),
                          normalize(overflow_checks, id[3]))
      [] id[1] = "IMax" ->
            normalize_imax(normalize(overflow_checks, id[2]),
                           normalize(overflow_checks, id[3]))
      [] OTHER -> id

\* Binder::new
Binder(name, ty) == [name |-> name, ty |-> ty, implicit |-> FALSE, info |-> "Default"]

mk_sort(level) == <<"Sort", level>>

mk_const(name) == <<"Const", name, <<>>>>

mk_var(index) == <<"Var", index>>

mk_app(func, arg) == <<"App", func, arg>>

mk_lam(binder, body) == <<"Lam", binder, body>>

mk_pi(binder, body) == <<"Pi", binder, body>>

mk_let(binder, value, body) == <<"Let", binder, value, body>>

mk_mvar(id) == <<"MVar", id>>

mk_nat(n) == <<"Lit", <<"Nat", n>>>>

\* ContextEntry::new and ContextEntry::with_value
EntryNew(name, ty) == [name |-> name, ty |-> ty, value |-> None]

EntryWithValue(name, ty, value) == [name |-> name, ty |-> ty, value |-> Some(value)]

\* Context::lookup: index 0 is the entry pushed last
lookup(ctx, index) ==
    IF Len(ctx) - (index + 1) < 0 THEN None ELSE Some(ctx[Len(ctx) - index])

type_of(ctx, index) ==
    LET e == lookup(ctx, index) IN IF e = None THEN None ELSE Some(e[2].ty)

value_of(ctx, index) ==
    LET e == lookup(ctx, index) IN IF e = None THEN None ELSE e[2].value

\* Declaration::def, ::axiom, ::theorem
DeclDef(name, ty, value) ==
    [name |-> name, ty |-> ty, value |-> Some(value), reducible |-> TRUE, kind |-> "Def"]

DeclAxiom(name, ty) ==
    [name |-> name, ty |-> ty, value |-> None, reducible |-> TRUE, kind |-> "Axiom"]

DeclTheorem(name, ty, proof) ==
    [name |-> name, ty |-> ty, value |-> Some(proof), reducible |-> FALSE, kind |-> "Theorem"]

is_reducible(decl) == decl.reducible /\ decl.value # None

\* Environment::new; an environment is the map declarations
EmptyEnv == [n \in {} |-> None]

AlreadyExists == "Internal: Declaration already exists"

\* An insert that replaces the declaration bound to the name
add_decl_replacing(env, decl) ==
    [ok |-> decl.name \notin DOMAIN env,
     err |-> IF decl.name \in DOMAIN env THEN AlreadyExists ELSE "",
     env |-> (decl.name :> decl) @@ env]

\* Environment::add_decl: an Err leaves the environment as it was
add_decl(env, decl) ==
    IF decl.name \in DOMAIN env
    THEN [ok |-> FALSE, err |-> AlreadyExists, env |-> env]
    ELSE [ok |-> TRUE, err |-> "", env |-> (decl.name :> decl) @@ env]

\* The result of a call on a Converter: Ok(val) or Err(err), and the
\* converter as the call left it.
ROk(v, cv) == [ok |-> TRUE, val |-> v, err |-> "", cv |-> cv]

RErr(e, cv) == [ok |-> FALSE, val |-> None, err |-> e, cv |-> cv]

DEFAULT_FUEL == 10000

EmptyCache == [k \in {} |-> None]

NoStats == [checks |-> 0, successes |-> 0, reductions |-> 0, cache_hits |-> 0]

with_fuel(fuel) == [fuel |-> fuel, cache |-> EmptyCache, stats |-> NoStats]

ConverterNew == with_fuel(DEFAULT_FUEL)

\* A substitution that leaves the term as it is
substituteNothing(term, idx, replacement) == term

\* Converter::substitute.  It does not shift indices; the code's test for an
\* unchanged sub-term returns the same interned term that rebuilding returns.
RECURSIVE substitute(_, _, _)
substitute(term, idx, replacement) ==
    CASE term[1] = "Var" -> IF term[2] = idx THEN replacement ELSE term
      [] term[1] = "App" ->
            mk_app(substitute(term[2], idx, replacement),
                   substitute(term[3], idx, replacement))
      [] term[1] = "Lam" ->
            mk_lam([term[2] EXCEPT !.ty = substitute(@, idx, replacement)],
                   substitute(term[3], idx + 1, replacement))
      [] term[1] = "Pi" ->
            mk_pi([term[2] EXCEPT !.ty = substitute(@, idx, replacement)],
                  substitute(term[3], idx + 1, replacement))
      [] term[1] = "Let" ->
            mk_let([term[2] EXCEPT !.ty = substitute(@, idx, replacement)],
                   substitute(term[3], idx, replacement),
                   substitute(term[4], idx + 1, replacement))
      [] OTHER -> term

OutOfFuelMsg == "Internal: Out of fuel during normalization"

\* A returned term in place of the error
OutOfFuelMut(cv, term) == ROk(term, cv)

\* Converter::whnf with self.fuel == 0
OutOfFuel(cv, term) == RErr(OutOfFuelMsg, cv)

\* The ? of the code: an Err is returned at once, an Ok result is handed on
Try(r, F(_)) == IF r.ok THEN F(r) ELSE r

\* Converter::whnf
RECURSIVE whnf(_, _, _, _)
whnf(cv, env, ctx, term) ==
    IF cv.fuel = 0 THEN OutOfFuel(cv, term)
    ELSE
    LET cache_key == <<term, Len(ctx)>>
        c1 == [cv EXCEPT !.fuel = @ - 1, !.stats.reductions = @ + 1]
    IN
    IF cache_key \in DOMAIN cv.cache
    THEN ROk(cv.cache[cache_key], [cv EXCEPT !.stats.cache_hits = @ + 1])
    ELSE
    Try(CASE term[1] = "Var" ->
               IF value_of(ctx, term[2]) # None
               THEN whnf(c1, env, ctx, value_of(ctx, term[2])[2])
               ELSE ROk(term, c1)
          [] term[1] = "Const" ->
               IF term[2] \in DOMAIN env /\ is_reducible(env[term[2]])
               THEN whnf(c1, env, ctx, env[term[2]].value[2])
               ELSE ROk(term, c1)
          [] term[1] = "App" ->
               Try(whnf(c1, env, ctx, term[2]), LAMBDA func_whnf :
                   IF func_whnf.val[1] = "Lam"
                   THEN whnf(func_whnf.cv, env, ctx,
                             substitute(func_whnf.val[3], 0, term[3]))
                   ELSE IF func_whnf.val # term[2]
                   THEN whnf(func_whnf.cv, env, ctx, mk_app(func_whnf.val, term[3]))
                   ELSE ROk(term, func_whnf.cv))
          [] term[1] = "Let" ->
               whnf(c1, env, ctx, substitute(term[4], 0, term[3]))
          [] OTHER -> ROk(term, c1),
        LAMBDA result :
            ROk(result.val,
                [result.cv EXCEPT !.cache = (cache_key :> result.val) @@ @]))

Success(cv) == [cv EXCEPT !.stats.successes = @ + 1]

\* Converter::is_def_eq and Converter::is_def_eq_whnf
RECURSIVE is_def_eq(_, _, _, _, _)
RECURSIVE is_def_eq_whnf(_, _, _, _, _)
is_def_eq(cv, env, ctx, t1, t2) ==
    IF t1 = t2 THEN ROk(TRUE, Success([cv EXCEPT !.stats.checks = @ + 1]))
    ELSE
    Try(whnf([cv EXCEPT !.stats.checks = @ + 1], env, ctx, t1), LAMBDA whnf1 :
    Try(whnf(whnf1.cv, env, ctx, t2), LAMBDA whnf2 :
        IF whnf1.val = whnf2.val THEN ROk(TRUE, Success(whnf2.cv))
        ELSE
        Try(is_def_eq_whnf(whnf2.cv, env, ctx, whnf1.val, whnf2.val), LAMBDA result :
            IF result.val THEN ROk(TRUE, Success(result.cv)) ELSE result)))

is_def_eq_whnf(cv, env, ctx, t1, t2) ==
    IF t1 = t2 THEN ROk(TRUE, cv)
    ELSE IF t1[1] # t2[1] THEN ROk(FALSE, cv)
    ELSE
    CASE t1[1] = "Sort" -> ROk(t1[2] = t2[2], cv)
      [] t1[1] = "Var" -> ROk(t1[2] = t2[2], cv)
      [] t1[1] = "Const" -> ROk(t1[2] = t2[2] /\ t1[3] = t2[3], cv)
      [] t1[1] = "App" ->
            Try(is_def_eq(cv, env, ctx, t1[2], t2[2]), LAMBDA funcs_eq :
            Try(is_def_eq(funcs_eq.cv, env, ctx, t1[3], t2[3]), LAMBDA args_eq :
                ROk(funcs_eq.val /\ args_eq.val, args_eq.cv)))
      [] t1[1] \in {"Lam", "Pi"} ->
            Try(is_def_eq(cv, env, ctx, t1[2].ty, t2[2].ty), LAMBDA types_eq :
                IF ~types_eq.val THEN ROk(FALSE, types_eq.cv)
                ELSE is_def_eq(types_eq.cv, env,
                               Append(ctx, EntryNew(t1[2].name, t1[2].ty)),
                               t1[3], t2[3]))
      [] t1[1] = "Lit" -> ROk(t1[2] = t2[2], cv)
      [] OTHER -> ROk(FALSE, cv)

\* TypeChecker::ensure_sort (extract_level calls it); cv is TypeChecker.converter
ensure_sort(cv, env, ctx, term) ==
    Try(whnf(cv, env, ctx, term), LAMBDA w :
        IF w.val[1] = "Sort" THEN ROk(w.val[2], w.cv)
        ELSE RErr("TypeError: Expected sort", w.cv))

\* TypeChecker::infer and TypeChecker::check
RECURSIVE infer(_, _, _, _)
RECURSIVE check(_, _, _, _, _)
infer(cv, env, ctx, term) ==
    CASE term[1] = "Sort" -> ROk(mk_sort(LSucc(term[2])), cv)
      [] term[1] = "Const" ->
            IF term[2] \in DOMAIN env THEN ROk(env[term[2]].ty, cv)
            ELSE RErr("NotFound: Constant not found", cv)
      [] term[1] = "Var" ->
            IF type_of(ctx, term[2]) # None THEN ROk(type_of(ctx, term[2])[2], cv)
            ELSE RErr("TypeError: Variable not in context", cv)
      [] term[1] = "App" ->
            Try(infer(cv, env, ctx, term[2]), LAMBDA func_ty :
            Try(whnf(func_ty.cv, env, ctx, func_ty.val), LAMBDA func_ty_whnf :
                IF func_ty_whnf.val[1] = "Pi"
                THEN Try(check(func_ty_whnf.cv, env, ctx, term[3],
                               func_ty_whnf.val[2].ty), LAMBDA c :
                         ROk(substitute(func_ty_whnf.val[3], 0, term[3]), c.cv))
                ELSE RErr("TypeError: Expected function type", func_ty_whnf.cv)))
      [] term[1] = "Lam" ->
            Try(infer(cv, env, ctx, term[2].ty), LAMBDA binder_ty_sort :
            Try(ensure_sort(binder_ty_sort.cv, env, ctx, binder_ty_sort.val), LAMBDA s :
            Try(infer(s.cv, env, Append(ctx, EntryNew(term[2].name, term[2].ty)),
                      term[3]), LAMBDA body_ty :
                ROk(mk_pi(term[2], body_ty.val), body_ty.cv))))
      [] term[1] = "Pi" ->
            Try(infer(cv, env, ctx, term[2].ty), LAMBDA domain_ty :
            Try(ensure_sort(domain_ty.cv, env, ctx, domain_ty.val), LAMBDA domain_level :
            Try(infer(domain_level.cv, env,
                      Append(ctx, EntryNew(term[2].name, term[2].ty)),
                      term[3]), LAMBDA codomain_ty :
            Try(ensure_sort(codomain_ty.cv, env,
                            Append(ctx, EntryNew(term[2].name, term[2].ty)),
                            codomain_ty.val), LAMBDA codomain_level :
                ROk(mk_sort(LIMax(domain_level.val, codomain_level.val)),
                    codomain_level.cv)))))
      [] term[1] = "Let" ->
            Try(check(cv, env, ctx, term[3], term[2].ty), LAMBDA c :
            Try(infer(c.cv, env,
                      Append(ctx, EntryWithValue(term[2].name, term[2].ty, term[3])),
                      term[4]), LAMBDA body_ty :
                ROk(substitute(body_ty.val, 0, term[3]), body_ty.cv)))
      [] term[1] = "MVar" -> RErr("TypeError: Metavariables not allowed in kernel", cv)
      [] term[1] = "Lit" -> ROk(mk_sort(LZero), cv)

check(cv, env, ctx, term, expected_ty) ==
    Try(infer(cv, env, ctx, term), LAMBDA inferred_ty :
    Try(is_def_eq(inferred_ty.cv, env, ctx, inferred_ty.val, expected_ty), LAMBDA eq :
        IF eq.val THEN ROk(TRUE, eq.cv) ELSE RErr("ConversionError", eq.cv)))

\* TypeChecker::check_declaration
check_declaration(cv, env, decl) ==
    Try(infer(cv, env, <<>>, decl.ty), LAMBDA ty_sort :
    Try(ensure_sort(ty_sort.cv, env, <<>>, ty_sort.val), LAMBDA s :
        IF decl.value # None THEN check(s.cv, env, <<>>, decl.value[2], decl.ty)
        ELSE ROk(TRUE, s.cv)))

-----------------------------------------------------------------------------
\* The terms, contexts and environments handed to a Converter used on its own
Sort0 == mk_sort(LZero)

Sort1 == mk_sort(LSucc(LZero))

Var0 == mk_var(0)

\* (\x. x x) (\x. x x), which has no weak head normal form
Delta == mk_lam(Binder("x", Sort0), mk_app(Var0, Var0))

Omega == mk_app(Delta, Delta)

LetOmega == mk_let(Binder("x", Sort0), Omega, Var0)

Diverging == {Omega, LetOmega}

\* (\x. x) 1
IdApp == mk_app(mk_lam(Binder("x", Sort0), Var0), mk_nat(1))

ConvTerms == {Var0, mk_nat(2), IdApp, mk_const("c"), mk_const("t")} \cup Diverging

ConvContexts ==
    { <<>>,
      <<EntryNew("x", Sort0)>>,
      <<EntryWithValue("x", Sort0, mk_nat(1))>>,
      <<EntryWithValue("x", Sort0, mk_nat(2))>> }

\* c is a definition, t a theorem (opaque)
ConvEnv ==
    add_decl(add_decl(EmptyEnv, DeclDef("c", Sort0, mk_nat(1))).env,
             DeclTheorem("t", Sort0, mk_nat(2))).env

NoCall ==
    [term |-> Var0, ctx |-> <<>>, before |-> with_fuel(0), after |-> with_fuel(0),
     ok |-> FALSE, val |-> None, err |-> ""]

ConvNew(fuel, env) ==
    /\ conv = with_fuel(fuel)
    /\ convEnv = env
    /\ whnfCalls = 0
    /\ whnfLast = NoCall

ConvInit == \E fuel \in 0..MaxFuel, env \in {EmptyEnv, ConvEnv} : ConvNew(fuel, env)

\* conv.whnf(arena, env, ctx, term)
WhnfCall(ctx, term) ==
    /\ whnfCalls < MaxCalls
    /\ LET r == whnf(conv, convEnv, ctx, term) IN
       /\ conv' = r.cv
       /\ whnfLast' = [term |-> term, ctx |-> ctx, before |-> conv, after |-> r.cv,
                       ok |-> r.ok, val |-> r.val, err |-> r.err]
    /\ whnfCalls' = whnfCalls + 1
    /\ UNCHANGED convEnv

\* Converter::clear_cache
ClearCache ==
    /\ conv' = [conv EXCEPT !.cache = EmptyCache]
    /\ UNCHANGED <<convEnv, whnfCalls, whnfLast>>

ConvNext ==
    /\ \/ \E ctx \in ConvContexts, term \in ConvTerms : WhnfCall(ctx, term)
       \/ ClearCache
    /\ UNCHANGED <<arenaVars, leaseVars, mailboxVars, schedVars, quorumVars, kernelVars, frontVars>>

-----------------------------------------------------------------------------
\* The declarations handed to a TypeChecker
\* let y : #0 := 1 in #0
LetAtVar0 == mk_let(Binder("y", Var0), mk_nat(1), Var0)

Decls ==
    { DeclDef("n1", Sort0, mk_nat(1)),
      DeclDef("u", Sort0, mk_const("n1")),
      DeclDef("id", mk_pi(Binder("x", Sort0), Sort0), mk_lam(Binder("x", Sort0), Var0)),
      DeclDef("ap", Sort0, mk_app(mk_const("id"), mk_nat(1))),
      DeclDef("bad", Sort0, Sort0),
      DeclAxiom("ax", Sort0),
      \* let A : Sort 1 := Sort 0 in let y : A := 1 in y
      DeclDef("p", Sort0, mk_let(Binder("A", Sort1), Sort0, LetAtVar0)),
      \* \B : Sort 0. let y : B := 1 in y
      DeclDef("q", mk_pi(Binder("B", Sort0), mk_nat(1)),
              mk_lam(Binder("B", Sort0), LetAtVar0)) }

NoCheck == [decl |-> DeclAxiom("ax", Sort0), env |-> EmptyEnv, ok |-> FALSE, err |-> ""]

\* TypeChecker::new and Environment::new
KernelNew ==
    /\ tc = ConverterNew
    /\ kEnv = EmptyEnv
    /\ declChecks = 0
    /\ declLast = NoCheck

\* tc.check_declaration(arena, levels, &env, &decl)
CheckDecl(decl) ==
    /\ declChecks < MaxChecks
    /\ LET r == check_declaration(tc, kEnv, decl) IN
       /\ tc' = r.cv
       /\ declLast' = [decl |-> decl, env |-> kEnv, ok |-> r.ok, err |-> r.err]
    /\ declChecks' = declChecks + 1
    /\ UNCHANGED kEnv

\* env.add_decl(decl) for the declaration that check_declaration accepted last
AddDecl(decl) ==
    /\ declChecks > 0
    /\ declLast.ok
    /\ declLast.decl = decl
    /\ kEnv' = add_decl(kEnv, decl).env
    /\ UNCHANGED <<tc, declChecks, declLast>>

KernelNext ==
    /\ \/ \E decl \in Decls : CheckDecl(decl)
       \/ \E decl \in Decls : AddDecl(decl)
    /\ UNCHANGED <<arenaVars, leaseVars, mailboxVars, schedVars, quorumVars, convVars, frontVars>>

-----------------------------------------------------------------------------
(***************************************************************************)
(* The unifier (leanr-core/src/unification.rs): a queue of constraints and *)
(* the substitution that solve builds from it.  A constraint is a tuple    *)
(* whose first component is the name of its Constraint variant.            *)
(***************************************************************************)
\* Substitution::new; a substitution is the map assignments
EmptySubst == [m \in {} |-> None]

is_assigned(subst, mvar) == mvar \in DOMAIN subst

\* Substitution::lookup
subst_lookup(subst, mvar) == IF mvar \in DOMAIN subst THEN Some(subst[mvar]) ELSE None

\* An assignment that is dropped
assignDropped(subst, mvar, term) == subst

\* An assignment that empties the map first
assignAlone(subst, mvar, term) == (mvar :> term)

\* Substitution::assign: HashMap::insert, which replaces the value of a key
\* the map already holds
assign(subst, mvar, term) == (mvar :> term) @@ subst

\* The metavariables written in a term
RECURSIVE MVarsOf(_)
MVarsOf(term) ==
    CASE term[1] = "MVar" -> {term[2]}
      [] term[1] = "App" -> MVarsOf(term[2]) \cup MVarsOf(term[3])
      [] term[1] \in {"Lam", "Pi"} -> MVarsOf(term[2].ty) \cup MVarsOf(term[3])
      [] term[1] = "Let" ->
            MVarsOf(term[2].ty) \cup MVarsOf(term[3]) \cup MVarsOf(term[4])
      [] OTHER -> {}

\* An occurs check that looks at the term as written
occursAsWritten(subst, mvar, term) == mvar \in MVarsOf(term)

\* Unifier::apply_subst: follows the assignments of a metavariable at the head
\* of the term, and leaves the sub-terms as they are
RECURSIVE apply_subst(_, _)
apply_subst(subst, term) ==
    IF term[1] = "MVar" /\ subst_lookup(subst, term[2]) # None
    THEN apply_subst(subst, subst_lookup(subst, term[2])[2])
    ELSE term

\* Unifier::occurs_check
RECURSIVE occurs_check(_, _, _)
occurs_check(subst, mvar, term) ==
    CASE term[1] = "MVar" ->
            IF term[2] = mvar THEN TRUE
            ELSE IF subst_lookup(subst, term[2]) # None
            THEN occurs_check(subst, mvar, subst_lookup(subst, term[2])[2])
            ELSE FALSE
      [] term[1] = "App" ->
            occurs_check(subst, mvar, term[2]) \/ occurs_check(subst, mvar, term[3])
      [] term[1] \in {"Lam", "Pi"} ->
            occurs_check(subst, mvar, term[2].ty) \/ occurs_check(subst, mvar, term[3])
      [] term[1] = "Let" ->
            \/ occurs_check(subst, mvar, term[2].ty)
            \/ occurs_check(subst, mvar, term[3])
            \/ occurs_check(subst, mvar, term[4])
      [] OTHER -> FALSE

\* The result of solve_unify: Ok(()) or Err(err), and the substitution as the
\* call left it (an Err does not undo the assignments made before it)
UOk(subst) == [ok |-> TRUE, err |-> "", subst |-> subst]

UErr(e, subst) == [ok |-> FALSE, err |-> e, subst |-> subst]

OccursCheckFailed == "UnificationError: Occurs check failed"

CannotUnify == "UnificationError: Cannot unify"

ExpectedSort == "UnificationError: Expected sort"

\* Unifier::solve_unify; unify_kinds is its match on the two resolved terms
RECURSIVE solve_unify(_, _, _)
RECURSIVE unify_kinds(_, _, _)
solve_unify(subst, t1, t2) ==
    IF t1 = t2 THEN UOk(subst)
    ELSE IF apply_subst(subst, t1) = apply_subst(subst, t2) THEN UOk(subst)
    ELSE unify_kinds(subst, apply_subst(subst, t1), apply_subst(subst, t2))

unify_kinds(subst, t1, t2) ==
    CASE t1[1] = "MVar" ->
            IF ~is_assigned(subst, t1[2])
            THEN IF occurs_check(subst, t1[2], t2) THEN UErr(OccursCheckFailed, subst)
                 ELSE UOk(assign(subst, t1[2], t2))
            ELSE solve_unify(subst, subst_lookup(subst, t1[2])[2], t2)
      [] t1[1] # "MVar" /\ t2[1] = "MVar" ->
            IF ~is_assigned(subst, t2[2])
            THEN IF occurs_check(subst, t2[2], t1) THEN UErr(OccursCheckFailed, subst)
                 ELSE UOk(assign(subst, t2[2], t1))
            ELSE solve_unify(subst, t1, subst_lookup(subst, t2[2])[2])
      [] t1[1] = "App" /\ t2[1] = "App" ->
            Try(solve_unify(subst, t1[2], t2[2]), LAMBDA funcs :
                solve_unify(funcs.subst, t1[3], t2[3]))
      [] t1[1] = "Lam" /\ t2[1] = "Lam" ->
            Try(solve_unify(subst, t1[2].ty, t2[2].ty), LAMBDA tys :
                solve_unify(tys.subst, t1[3], t2[3]))
      [] t1[1] = "Pi" /\ t2[1] = "Pi" ->
            Try(solve_unify(subst, t1[2].ty, t2[2].ty), LAMBDA tys :
                solve_unify(tys.subst, t1[3], t2[3]))
      [] t1[1] = "Sort" /\ t2[1] = "Sort" /\ t1[2] = t2[2] -> UOk(subst)
      [] t1[1] = "Var" /\ t2[1] = "Var" /\ t1[2] = t2[2] -> UOk(subst)
      [] t1[1] = "Const" /\ t2[1] = "Const" /\ t1[2] = t2[2] /\ t1[3] = t2[3] -> UOk(subst)
      [] OTHER -> UErr(CannotUnify, subst)

\* Constraint::Unify, ::IsSort, ::HasType
Unify(t1, t2) == <<"Unify", t1, t2>>

IsSort(term) == <<"IsSort", term>>

HasType(mvar, ty) == <<"HasType", mvar, ty>>

-----------------------------------------------------------------------------
\* The terms and constraints handed to a Unifier
M0 == mk_mvar(0)

M1 == mk_mvar(1)

UTerms ==
    { M0, M1,
      mk_app(M0, Var0),
      mk_app(Var0, M1),
      mk_lam(Binder("x", Sort0), M1),
      mk_lam(Binder("y", Sort0), M0) }

OtherConstraints == {IsSort(M0), IsSort(Sort0), IsSort(Var0), HasType(0, Sort0)}

NoStep ==
    [valid |-> FALSE, t1 |-> Var0, t2 |-> Var0, before |-> EmptySubst,
     ok |-> FALSE, err |-> ""]

\* Unifier::new
UnifierNew ==
    /\ uSubst = EmptySubst
    /\ uConstraints = <<>>
    /\ uMvarTypes = EmptySubst
    /\ uPc = "idle"
    /\ uAdded = 0
    /\ uBatch = {}
    /\ uLast = "none"
    /\ uStep = NoStep

\* Unifier::add_constraint
add_constraint(constraint) ==
    /\ uPc = "idle"
    /\ uAdded < MaxConstraints
    /\ uConstraints' = Append(uConstraints, constraint)
    /\ uAdded' = uAdded + 1
    /\ UNCHANGED <<uSubst, uMvarTypes, uPc, uBatch, uLast, uStep>>

\* Unifier::unify
unify(t1, t2) == add_constraint(Unify(t1, t2))

\* Unifier::declare_mvar
declare_mvar(mvar, ty) ==
    /\ uPc = "idle"
    /\ uMvarTypes' = (mvar :> ty) @@ uMvarTypes
    /\ UNCHANGED <<uSubst, uConstraints, uPc, uAdded, uBatch, uLast, uStep>>

\* Unifier::solve is entered
SolveCall ==
    /\ uPc = "idle"
    /\ uPc' = "solving"
    /\ uBatch' = {}
    /\ UNCHANGED <<uSubst, uConstraints, uMvarTypes, uAdded, uLast, uStep>>

\* One turn of the loop of solve on Constraint::Unify(t1, t2)
SolveStepUnify ==
    /\ uPc = "solving"
    /\ uConstraints # <<>>
    /\ Head(uConstraints)[1] = "Unify"
    /\ LET t1 == Head(uConstraints)[2]
           t2 == Head(uConstraints)[3]
           r == solve_unify(uSubst, t1, t2)
       IN
       /\ uSubst' = r.subst
       /\ uStep' = [valid |-> TRUE, t1 |-> t1, t2 |-> t2, before |-> uSubst,
                    ok |-> r.ok, err |-> r.err]
       /\ uPc' = IF r.ok THEN "solving" ELSE "idle"
       /\ uLast' = IF r.ok THEN uLast ELSE r.err
    /\ uConstraints' = Tail(uConstraints)
    /\ uBatch' = uBatch \cup {Head(uConstraints)}
    /\ UNCHANGED <<uMvarTypes, uAdded>>

\* One turn of the loop on Constraint::IsSort(term): an unassigned
\* metavariable puts the constraint back at the end of the queue
SolveStepIsSort ==
    /\ uPc = "solving"
    /\ uConstraints # <<>>
    /\ Head(uConstraints)[1] = "IsSort"
    /\ LET term == apply_subst(uSubst, Head(uConstraints)[2]) IN
       IF term[1] = "Sort"
       THEN /\ uConstraints' = Tail(uConstraints)
            /\ UNCHANGED <<uPc, uLast>>
       ELSE IF term[1] = "MVar"
       THEN /\ uConstraints' = Append(Tail(uConstraints), IsSort(term))
            /\ UNCHANGED <<uPc, uLast>>
       ELSE /\ uConstraints' = Tail(uConstraints)
            /\ uPc' = "idle"
            /\ uLast' = ExpectedSort
    /\ UNCHANGED <<uSubst, uMvarTypes, uAdded, uBatch, uStep>>

\* One turn of the loop on Constraint::HasType(mvar, ty)
SolveStepHasType ==
    /\ uPc = "solving"
    /\ uConstraints # <<>>
    /\ Head(uConstraints)[1] = "HasType"
    /\ uMvarTypes' = (Head(uConstraints)[2] :> Head(uConstraints)[3]) @@ uMvarTypes
    /\ uConstraints' = Tail(uConstraints)
    /\ UNCHANGED <<uSubst, uPc, uAdded, uBatch, uLast, uStep>>

\* The queue is empty: solve returns Ok(())
SolveReturn ==
    /\ uPc = "solving"
    /\ uConstraints = <<>>
    /\ uPc' = "idle"
    /\ uLast' = "ok"
    /\ UNCHANGED <<uSubst, uConstraints, uMvarTypes, uAdded, uBatch, uStep>>

UnifierNext ==
    /\ \/ \E t1 \in UTerms, t2 \in UTerms : unify(t1, t2)
       \/ \E c \in OtherConstraints : add_constraint(c)
       \/ declare_mvar(0, Sort0)
       \/ SolveCall
       \/ SolveStepUnify
       \/ SolveStepIsSort
       \/ SolveStepHasType
       \/ SolveReturn
    /\ UNCHANGED <<coreVars, elabVars, inferVars, levelVars, betaVars, defEqVars, closeVars, envVars, symbolVars, guardVars, topologyVars, capsVars, parserVars, ncacheVars, pollVars, substVars, sortEqVars>>

-----------------------------------------------------------------------------
(***************************************************************************)
(* The elaborator (leanr-elab): surface declarations to kernel terms.      *)
(* An expression is a tuple whose first component is the name of its Expr  *)
(* variant; declarations have no parameters.  The state of an Elaborator   *)
(* is its MetaVarContext (next_id, mvars) and the queue of its Unifier.    *)
(***************************************************************************)
Ident(name) == <<"Ident", name>>

LitNat(n) == <<"Lit", <<"Nat", n>>>>

LitString(s) == <<"Lit", <<"String", s>>>>

Hole == <<"Hole">>

UniverseType == <<"Universe", "Type">>

DefDecl(name, return_type, body) ==
    [kind |-> "Def", name |-> name, return_type |-> return_type, body |-> body]

TheoremDecl(name, type_, proof) ==
    [kind |-> "Theorem", name |-> name, type_ |-> type_, proof |-> proof]

AxiomDecl(name, type_) == [kind |-> "Axiom", name |-> name, type_ |-> type_]

InductiveDecl(name) == [kind |-> "Inductive", name |-> name]

\* Arena::mk_lit interns TermKind::Lit(lit)
mk_lit(lit) == <<"Lit", lit>>

\* Environment::get_constant
get_constant(env, name) ==
    IF name \in DOMAIN env THEN Some([type_ |-> env[name].ty, value |-> env[name].value])
    ELSE None

\* Environment::add_constant: adding fails if the name is already bound
add_constant(env, name, type_, value) ==
    add_decl(env, [name |-> name, ty |-> type_, value |-> value,
                   reducible |-> TRUE, kind |-> "Def"])

\* LevelId::new(1): the level at index 1 of the LevelArena that reads it
LevelId1 == <<"LevelId", 1>>

\* Elaborator::new
ElaboratorNew == [next_id |-> 0, mvars |-> EmptySubst, constraints |-> <<>>]

\* The result of synth and check: Ok((term, ty)) or Err(err), and the
\* elaborator as the call left it
EOk(term, ty, el) == [ok |-> TRUE, err |-> "", term |-> term, ty |-> ty, el |-> el]

EErr(e, el) == [ok |-> FALSE, err |-> e, term |-> None, ty |-> None, el |-> el]

\* MetaVarContext::fresh, through fresh_mvar_with_type; ctx.depth() is 0
fresh_mvar_with_type(el, ty) ==
    EOk(mk_mvar(el.next_id), ty,
        [el EXCEPT !.next_id = @ + 1,
                   !.mvars = (el.next_id :> [id |-> el.next_id, ty |-> ty, depth |-> 0,
                                             assignment |-> None]) @@ @])

\* Elaborator::fresh_mvar
fresh_mvar(el) == fresh_mvar_with_type(el, mk_sort(LZero))

\* MetaVarContext::unsolved
unsolved(el) == {m \in DOMAIN el.mvars : el.mvars[m].assignment = None}

\* Elaborator::synth; the local context is empty
synth(el, env, expr) ==
    CASE expr[1] = "Ident" ->
            IF get_constant(env, expr[2]) # None
            THEN EOk(mk_const(expr[2]), get_constant(env, expr[2])[2].type_, el)
            ELSE EErr("Unknown identifier", el)
      [] expr[1] = "Lit" ->
            EOk(mk_lit(expr[2]),
                IF get_constant(env, expr[2][1]) # None
                THEN get_constant(env, expr[2][1])[2].type_
                ELSE mk_sort(LZero),
                el)
      [] expr[1] = "Universe" -> EOk(mk_sort(LZero), mk_sort(LevelId1), el)
      [] expr[1] = "Hole" ->
            Try(fresh_mvar(el), LAMBDA ty_mvar :
            Try(fresh_mvar_with_type(ty_mvar.el, ty_mvar.term), LAMBDA term_mvar :
                EOk(term_mvar.term, ty_mvar.term, term_mvar.el)))
      [] OTHER -> EErr("Cannot synthesize type", el)

\* Elaborator::check
elab_check(el, env, expr, expected_ty) ==
    IF expr[1] = "Hole" THEN fresh_mvar_with_type(el, expected_ty)
    ELSE Try(synth(el, env, expr), LAMBDA s :
             EOk(s.term, expected_ty,
                 [s.el EXCEPT !.constraints = Append(@, Unify(s.ty, expected_ty))]))

\* What elaborate_decl returns: Ok(()) or Err(err), the environment and the
\* elaborator as it left them
DeclResult(eres, name, type_, value, env) ==
    IF add_constant(env, name, type_, value).ok
    THEN [ok |-> TRUE, err |-> "", env |-> add_constant(env, name, type_, value).env,
          el |-> eres.el]
    ELSE [ok |-> FALSE, err |-> "already exists", env |-> env, el |-> eres.el]

\* Elaborator::elaborate_def
elaborate_def(el, env, def) ==
    IF def.return_type # None
    THEN Try(synth(el, env, def.return_type[2]), LAMBDA return_type :
         Try(elab_check(return_type.el, env, def.body, return_type.term), LAMBDA body_term :
             DeclResult(body_term, def.name, return_type.term, Some(body_term.term), env)))
    ELSE Try(synth(el, env, def.body), LAMBDA return_type :
         Try(synth(return_type.el, env, def.body), LAMBDA body_term :
             DeclResult(body_term, def.name, return_type.ty, Some(body_term.term), env)))

\* Elaborator::elaborate_theorem
elaborate_theorem(el, env, thm) ==
    Try(synth(el, env, thm.type_), LAMBDA type_term :
    Try(elab_check(type_term.el, env, thm.proof, type_term.term), LAMBDA proof_term :
        DeclResult(proof_term, thm.name, type_term.term, Some(proof_term.term), env)))

\* Elaborator::elaborate_axiom
elaborate_axiom(el, env, ax) ==
    Try(synth(el, env, ax.type_), LAMBDA type_term :
        DeclResult(type_term, ax.name, type_term.term, None, env))

\* Elaborator::elaborate_decl
elaborate_decl(el, env, decl) ==
    CASE decl.kind = "Def" -> elaborate_def(el, env, decl)
      [] decl.kind = "Theorem" -> elaborate_theorem(el, env, decl)
      [] decl.kind = "Axiom" -> elaborate_axiom(el, env, decl)
      [] OTHER -> EErr("Inductive types not yet implemented", el)

-----------------------------------------------------------------------------
\* The declarations handed to elaborate_decl
SurfaceDecls ==
    { AxiomDecl("Nat", UniverseType),
      DefDecl("bad", Some(Ident("Nat")), LitString("hello")),
      DefDecl("n", Some(Ident("Nat")), LitNat(42)),
      DefDecl("m", None, Ident("Nat")),
      DefDecl("h", None, Hole),
      DefDecl("k", Some(Hole), LitNat(42)),
      TheoremDecl("th", Ident("Nat"), Hole),
      InductiveDecl("I") }

NoElab ==
    [valid |-> FALSE, decl |-> InductiveDecl("I"), ok |-> FALSE, err |-> "",
     mvars |-> {}, unsolved |-> {}, pending |-> <<>>]

\* Environment::new, and no call of elaborate_decl yet
ElabInit ==
    /\ eEnv = EmptyEnv
    /\ eAdded = <<>>
    /\ eCalls = 0
    /\ eLast = NoElab

\* leanr_elab::elaborate_decl(decl, arena, env): a new Elaborator elaborates
\* the declaration and is dropped
ElabDecl(decl) ==
    /\ eCalls < MaxElabs
    /\ LET r == elaborate_decl(ElaboratorNew, eEnv, decl) IN
       /\ eEnv' = IF r.ok THEN r.env ELSE eEnv
       /\ eAdded' = IF r.ok THEN Append(eAdded, r.env[decl.name]) ELSE eAdded
       /\ eLast' = [valid |-> TRUE, decl |-> decl, ok |-> r.ok, err |-> r.err,
                    mvars |-> DOMAIN r.el.mvars, unsolved |-> unsolved(r.el),
                    pending |-> r.el.constraints]
    /\ eCalls' = eCalls + 1

ElabNext ==
    /\ \E decl \in SurfaceDecls : ElabDecl(decl)
    /\ UNCHANGED <<coreVars, unifierVars, inferVars, levelVars, betaVars, defEqVars, closeVars, envVars, symbolVars, guardVars, topologyVars, capsVars, parserVars, ncacheVars, pollVars, substVars, sortEqVars>>

-----------------------------------------------------------------------------
(***************************************************************************)
(* A TypeChecker whose infer is called on terms (typechecker.rs).          *)
(***************************************************************************)
\* (\x : Sort 1. Sort 0) ?0, which reduces to Sort 0
ConstFnAtM0 == mk_app(mk_lam(Binder("x", Sort1), Sort0), M0)

InferTerms ==
    { Sort0, Sort1, mk_sort(constant(U32(1))),
      Var0, mk_nat(1), mk_const("c"),
      M0,
      mk_app(mk_lam(Binder("x", Sort0), Var0), M0),
      mk_lam(Binder("x", M0), Var0),
      mk_lam(Binder("x", Sort0), M0),
      mk_pi(Binder("x", M0), Sort0),
      mk_pi(Binder("x", Sort0), M0),
      mk_let(Binder("y", Sort0), M0, Var0),
      mk_let(Binder("y", Sort0), mk_nat(1), M0),
      mk_let(Binder("y", M0), mk_nat(1), Var0),
      mk_let(Binder("y", ConstFnAtM0), mk_nat(1), Var0) }

InferContexts == {<<>>, <<EntryNew("x", Sort0)>>}

NoInfer == [valid |-> FALSE, ctx |-> <<>>, term |-> Var0, ok |-> FALSE, val |-> None, err |-> ""]

InferNew(env) ==
    /\ iTc = ConverterNew
    /\ iEnv = env
    /\ iCalls = 0
    /\ iLast = NoInfer

InferInit == \E env \in {EmptyEnv, ConvEnv} : InferNew(env)

\* tc.infer(arena, levels, &env, &ctx, term)
InferCall(ctx, term) ==
    /\ iCalls < MaxInfers
    /\ LET r == infer(iTc, iEnv, ctx, term) IN
       /\ iTc' = r.cv
       /\ iLast' = [valid |-> TRUE, ctx |-> ctx, term |-> term, ok |-> r.ok,
                    val |-> r.val, err |-> r.err]
    /\ iCalls' = iCalls + 1
    /\ UNCHANGED iEnv

InferNext ==
    /\ \E ctx \in InferContexts, term \in InferTerms : InferCall(ctx, term)
    /\ UNCHANGED <<coreVars, unifierVars, elabVars, levelVars, betaVars, defEqVars, closeVars, envVars, symbolVars, guardVars, topologyVars, capsVars, parserVars, ncacheVars, pollVars, substVars, sortEqVars>>

-----------------------------------------------------------------------------
(***************************************************************************)
(* LevelArena::normalize called on levels (level.rs).                      *)
(***************************************************************************)
\* Const(0) is what intern(Level::Const(0)) builds; constant(0) is Zero
LevelAtoms ==
    {LZero, LConst(U32(0)), constant(U32(1)), constant(U32(2)), constant(U32Max), LParam(0)}

\* The levels built with at most depth constructors on a path, one part of
\* a max or imax being an atom
RECURSIVE LevelsOfDepth(_)
LevelsOfDepth(depth) ==
    IF depth = 0 THEN LevelAtoms
    ELSE LET below == LevelsOfDepth(depth - 1) IN
         below
         \cup {LSucc(l) : l \in below}
         \cup {LMax(a, l) : a \in LevelAtoms, l \in below}
         \cup {LMax(l, a) : a \in LevelAtoms, l \in below}
         \cup {LIMax(a, l) : a \in LevelAtoms, l \in below}
         \cup {LIMax(l, a) : a \in LevelAtoms, l \in below}

Levels == LevelsOfDepth(MaxLevelDepth)

LevelInit ==
    \E id \in Levels, overflow_checks \in BOOLEAN :
        lv = [valid |-> FALSE, id |-> id, overflow_checks |-> overflow_checks,
              once |-> id, twice |-> id]

LevelIdle ==
    lv = [valid |-> FALSE, id |-> LZero, overflow_checks |-> TRUE, once |-> LZero,
          twice |-> LZero]

\* levels.normalize(id), and levels.normalize of what it returned
NormalizeCall ==
    /\ ~lv.valid
    /\ lv' = [lv EXCEPT !.valid = TRUE,
                        !.once = normalize(lv.overflow_checks, lv.id),
                        !.twice = IF normalize(lv.overflow_checks, lv.id) = Panicked
                                  THEN Panicked
                                  ELSE normalize(lv.overflow_checks,
                                                 normalize(lv.overflow_checks, lv.id))]

LevelNext == NormalizeCall /\ UNCHANGED <<coreVars, unifierVars, elabVars, inferVars, betaVars, defEqVars, closeVars, envVars, symbolVars, guardVars, topologyVars, capsVars, parserVars, ncacheVars, pollVars, substVars, sortEqVars>>

-----------------------------------------------------------------------------
(***************************************************************************)
(* Beta reduction: whnf of an application of a lambda to a closed normal   *)
(* value, next to whnf of the substituted body (conversion.rs).            *)
(***************************************************************************)
\* \x. x
IdLam == mk_lam(Binder("x", Sort0), Var0)

BetaBodies == {Var0, mk_var(1), mk_app(Var0, Var0), mk_const("c")}

\* Closed terms in normal form
BetaValues == {mk_nat(42), Delta}

BetaContexts ==
    { <<>>,
      <<EntryWithValue("x", Sort0, mk_nat(1)), EntryNew("y", Sort0)>>,
      <<EntryWithValue("x", Sort0, mk_nat(2)), EntryNew("y", Sort0)>> }

NoBeta ==
    [valid |-> FALSE, ctx |-> <<>>, body |-> Var0, v |-> Var0, before |-> with_fuel(0),
     app |-> [ok |-> FALSE, val |-> None], direct |-> [ok |-> FALSE, val |-> None]]

BetaNew(fuel, env) ==
    /\ bCv = with_fuel(fuel)
    /\ bEnv = env
    /\ bCalls = 0
    /\ bLast = NoBeta

BetaInit == \E fuel \in 0..MaxFuel, env \in {EmptyEnv, ConvEnv} : BetaNew(fuel, env)

\* conv.whnf(arena, env, ctx, App(Lam(x : Sort 0, body), v)); the history
\* also holds what conv.whnf(arena, env, ctx, substitute(body, 0, v)) returns
\* when it is called on the converter as it was before
BetaCall(ctx, body, v) ==
    /\ bCalls < MaxBetas
    /\ LET app == whnf(bCv, bEnv, ctx, mk_app(mk_lam(Binder("x", Sort0), body), v))
           direct == whnf(bCv, bEnv, ctx, substitute(body, 0, v))
       IN
       /\ bCv' = app.cv
       /\ bLast' = [valid |-> TRUE, ctx |-> ctx, body |-> body, v |-> v, before |-> bCv,
                    app |-> [ok |-> app.ok, val |-> app.val],
                    direct |-> [ok |-> direct.ok, val |-> direct.val]]
    /\ bCalls' = bCalls + 1
    /\ UNCHANGED bEnv

BetaNext ==
    /\ \E ctx \in BetaContexts, body \in BetaBodies, v \in BetaValues : BetaCall(ctx, body, v)
    /\ UNCHANGED <<coreVars, unifierVars, elabVars, inferVars, levelVars, defEqVars, closeVars, envVars, symbolVars, guardVars, topologyVars, capsVars, parserVars, ncacheVars, pollVars, substVars, sortEqVars>>

-----------------------------------------------------------------------------
(***************************************************************************)
(* Converter::is_def_eq as a relation on terms, for one environment and    *)
(* one context (conversion.rs).                                            *)
(***************************************************************************)
\* \y. #1 and \y. 1: under a context whose last entry is let-bound to 1 the
\* bodies reduce to the same literal
LamOuter == mk_lam(Binder("y", Sort0), mk_var(1))

LamOne == mk_lam(Binder("y", Sort0), mk_nat(1))

DefEqTerms == {LamOuter, LamOne, mk_nat(1), Var0, mk_app(IdLam, mk_nat(1)), Sort0}

DefEqContexts ==
    { <<>>,
      <<EntryNew("x", Sort0)>>,
      <<EntryWithValue("x", Sort0, mk_nat(1))>> }

\* is_def_eq on a converter made for the query returned Ok(true)
DefEq(env, ctx, t1, t2) ==
    LET r == is_def_eq(with_fuel(DefEqFuel), env, ctx, t1, t2) IN r.ok /\ r.val

NoLaws ==
    [aa |-> FALSE, ab |-> FALSE, ba |-> FALSE, bc |-> FALSE, ac |-> FALSE,
     under |-> FALSE, app_func |-> FALSE, app_arg |-> FALSE, lam_ty |-> FALSE,
     lam_body |-> FALSE, pi_ty |-> FALSE, pi_body |-> FALSE]

DefEqInit ==
    \E env \in {EmptyEnv, ConvEnv}, ctx \in DefEqContexts,
       a \in DefEqTerms, b \in DefEqTerms, c \in DefEqTerms :
        de = [valid |-> FALSE, env |-> env, ctx |-> ctx, a |-> a, b |-> b, c |-> c,
              eq |-> NoLaws]

DefEqIdle ==
    de = [valid |-> FALSE, env |-> EmptyEnv, ctx |-> <<>>, a |-> Var0, b |-> Var0,
          c |-> Var0, eq |-> NoLaws]

\* The is_def_eq calls on a, b and c and on the terms one constructor builds
\* from them; under is the call on a and b below a binder of type c
DefEqCalls ==
    /\ ~de.valid
    /\ LET env == de.env
           ctx == de.ctx
           a == de.a
           b == de.b
           c == de.c
           y == Binder("y", c)
       IN
       de' = [de EXCEPT
                !.valid = TRUE,
                !.eq = [aa |-> DefEq(env, ctx, a, a),
                        ab |-> DefEq(env, ctx, a, b),
                        ba |-> DefEq(env, ctx, b, a),
                        bc |-> DefEq(env, ctx, b, c),
                        ac |-> DefEq(env, ctx, a, c),
                        under |-> DefEq(env, Append(ctx, EntryNew("y", c)), a, b),
                        app_func |-> DefEq(env, ctx, mk_app(a, c), mk_app(b, c)),
                        app_arg |-> DefEq(env, ctx, mk_app(c, a), mk_app(c, b)),
                        lam_ty |-> DefEq(env, ctx, mk_lam(Binder("y", a), c),
                                         mk_lam(Binder("y", b), c)),
                        lam_body |-> DefEq(env, ctx, mk_lam(y, a), mk_lam(y, b)),
                        pi_ty |-> DefEq(env, ctx, mk_pi(Binder("y", a), c),
                                        mk_pi(Binder("y", b), c)),
                        pi_body |-> DefEq(env, ctx, mk_pi(y, a), mk_pi(y, b))]]

DefEqNext ==
    DefEqCalls /\ UNCHANGED <<coreVars, unifierVars, elabVars, inferVars, levelVars, betaVars, closeVars, envVars, symbolVars, guardVars, topologyVars, capsVars, parserVars, ncacheVars, pollVars, substVars, sortEqVars>>

-----------------------------------------------------------------------------
(***************************************************************************)
(* The life of one spawned agent's mailbox (runtime/src/orchestration.rs   *)
(* spawn, runtime/src/mailbox.rs).  spawn hands the Mailbox, with its own   *)
(* Sender tx and Receiver rx, to the behavior and an AgentRef holding a     *)
(* MailboxSender to the caller.  The flume channel is disconnected for the  *)
(* receiving side once every Sender is dropped: the AgentRefs' and the      *)
(* Mailbox's.                                                               *)
(***************************************************************************)
RefIds == 1..MaxRefs

\* The Senders of the channel that are alive
LiveSenders == Cardinality(clRefs) + (IF clMailbox THEN 1 ELSE 0)

\* The Receivers of the channel that are alive
LiveReceivers == (IF clMailbox THEN 1 ELSE 0) + (IF clReceiver THEN 1 ELSE 0)

\* spawn(behavior): Mailbox::new(), mailbox.sender(), AgentRef::new
Spawn ==
    /\ clRefs = {1}
    /\ clMailbox = TRUE
    /\ clReceiver = FALSE
    /\ clQueue = 0
    /\ clSends = 0
    /\ clPc = "idle"
    /\ clLast = "none"
    /\ clSendLast = "none"

\* AgentRef::clone
RefClone(r) ==
    /\ clRefs # {}
    /\ r \notin clRefs
    /\ clRefs' = clRefs \cup {r}
    /\ UNCHANGED <<clMailbox, clReceiver, clQueue, clSends, clPc, clLast, clSendLast>>

\* drop of an AgentRef
RefDrop(r) ==
    /\ r \in clRefs
    /\ clRefs' = clRefs \ {r}
    /\ UNCHANGED <<clMailbox, clReceiver, clQueue, clSends, clPc, clLast, clSendLast>>

\* AgentRef::send -> MailboxSender::send: send_async fails once every
\* Receiver is dropped
RefSend(r) ==
    /\ r \in clRefs
    /\ clSends < MaxCloseSends
    /\ clSends' = clSends + 1
    /\ IF LiveReceivers = 0
       THEN clSendLast' = "MailboxClosed" /\ UNCHANGED clQueue
       ELSE clSendLast' = "Ok" /\ clQueue' = clQueue + 1
    /\ UNCHANGED <<clRefs, clMailbox, clReceiver, clPc, clLast>>

\* Mailbox::receiver, called by the behavior
TakeReceiver ==
    /\ clMailbox
    /\ ~clReceiver
    /\ clReceiver' = TRUE
    /\ UNCHANGED <<clRefs, clMailbox, clQueue, clSends, clPc, clLast, clSendLast>>

\* The behavior drops the Mailbox; a recv on it borrows it
MailboxDrop ==
    /\ clMailbox
    /\ clPc # "mailbox"
    /\ clMailbox' = FALSE
    /\ UNCHANGED <<clRefs, clReceiver, clQueue, clSends, clPc, clLast, clSendLast>>

\* Mailbox::recv, up to rx.recv_async().await
RecvOnMailbox ==
    /\ clPc = "idle"
    /\ clMailbox
    /\ clPc' = "mailbox"
    /\ UNCHANGED <<clRefs, clMailbox, clReceiver, clQueue, clSends, clLast, clSendLast>>

\* MailboxReceiver::recv, up to rx.recv_async().await
RecvOnReceiver ==
    /\ clPc = "idle"
    /\ clReceiver
    /\ clPc' = "receiver"
    /\ UNCHANGED <<clRefs, clMailbox, clReceiver, clQueue, clSends, clLast, clSendLast>>

\* recv_async resolves with a message
RecvOk ==
    /\ clPc # "idle"
    /\ clQueue > 0
    /\ clQueue' = clQueue - 1
    /\ clPc' = "idle"
    /\ clLast' = "Ok"
    /\ UNCHANGED <<clRefs, clMailbox, clReceiver, clSends, clSendLast>>

\* recv_async resolves with the disconnect error: the queue is empty and no
\* Sender is alive
RecvClosed ==
    /\ clPc # "idle"
    /\ clQueue = 0
    /\ LiveSenders = 0
    /\ clPc' = "idle"
    /\ clLast' = "MailboxClosed"
    /\ UNCHANGED <<clRefs, clMailbox, clReceiver, clQueue, clSends, clSendLast>>

CloseNext ==
    /\ \/ \E r \in RefIds : RefClone(r)
       \/ \E r \in RefIds : RefDrop(r)
       \/ \E r \in RefIds : RefSend(r)
       \/ TakeReceiver
       \/ MailboxDrop
       \/ RecvOnMailbox
       \/ RecvOnReceiver
       \/ RecvOk
       \/ RecvClosed
    /\ UNCHANGED <<coreVars, unifierVars, elabVars, inferVars, levelVars, betaVars, defEqVars, envVars, symbolVars, guardVars, topologyVars, capsVars, parserVars, ncacheVars, pollVars, substVars, sortEqVars>>

\* tokio polls a recv whose channel has a message or is disconnected
CloseFairness ==
    /\ WF_vars(RecvOk /\ UNCHANGED <<coreVars, unifierVars, elabVars, inferVars, levelVars, betaVars, defEqVars, envVars, symbolVars, guardVars, topologyVars, capsVars, parserVars, ncacheVars, pollVars, substVars, sortEqVars>>)
    /\ WF_vars(RecvClosed /\ UNCHANGED <<coreVars, unifierVars, elabVars, inferVars, levelVars, betaVars, defEqVars, envVars, symbolVars, guardVars, topologyVars, capsVars, parserVars, ncacheVars, pollVars, substVars, sortEqVars>>)

-----------------------------------------------------------------------------
(***************************************************************************)
(* An Environment that declarations are added to with add_decl             *)
(* (leanr-core/src/environment.rs).                                        *)
(***************************************************************************)
EnvDecls ==
    { DeclAxiom("a", Sort0), DeclAxiom("a", Sort1), DeclDef("a", Sort0, mk_nat(1)),
      DeclAxiom("b", Sort0), DeclTheorem("b", Sort0, mk_nat(2)), DeclAxiom("d", Sort1) }

NoAdd == [valid |-> FALSE, decl |-> DeclAxiom("a", Sort0), before |-> EmptyEnv,
          ok |-> FALSE, err |-> ""]

\* Environment::new
EnvNew ==
    /\ envDecls = EmptyEnv
    /\ envAdds = 0
    /\ envLast = NoAdd

\* env.add_decl(decl)
EnvAddDecl(decl) ==
    /\ envAdds < MaxAdds
    /\ LET r == add_decl(envDecls, decl) IN
       /\ envDecls' = r.env
       /\ envLast' = [valid |-> TRUE, decl |-> decl, before |-> envDecls,
                      ok |-> r.ok, err |-> r.err]
    /\ envAdds' = envAdds + 1

EnvNext ==
    /\ \E decl \in EnvDecls : EnvAddDecl(decl)
    /\ UNCHANGED <<coreVars, unifierVars, elabVars, inferVars, levelVars, betaVars, defEqVars, closeVars, symbolVars, guardVars, topologyVars, capsVars, parserVars, ncacheVars, pollVars, substVars, sortEqVars>>

-----------------------------------------------------------------------------
(***************************************************************************)
(* A SymbolTable that threads intern strings in concurrently                *)
(* (leanr-core/src/symbol.rs).  The read-locked lookup and the write-locked *)
(* insertion of one call are two steps; other calls run in between.         *)
(***************************************************************************)
Interners == 1..MaxInterners
SymbolStrings == {"hello", "world", "nat"}

\* lookup.get(s) under the read lock
lookup_get(table, s) == IF s \in DOMAIN table THEN Some(table[s]) ELSE None

\* The slow path without its second lookup
intern_slow_unchecked(strings, table, s) ==
    LET id == Len(strings) IN
    [strings |-> Append(strings, s), lookup |-> (s :> id) @@ table,
     id |-> id, path |-> "insert"]

\* The slow path of intern, under both write locks: look up again, then
\* append the string and bind it to its index
intern_slow(strings, table, s) ==
    IF s \in DOMAIN table
    THEN [strings |-> strings, lookup |-> table, id |-> table[s], path |-> "recheck"]
    ELSE LET id == Len(strings) IN
         [strings |-> Append(strings, s), lookup |-> (s :> id) @@ table,
          id |-> id, path |-> "insert"]

\* SymbolTable::new, no call in progress
SymbolTableNew ==
    /\ symStrings = <<>>
    /\ symLookup = <<>>
    /\ symPc = [t \in Interners |-> "idle"]
    /\ symArg = [t \in Interners |-> "hello"]
    /\ symRets = {}
    /\ symCalls = 0

\* Thread t calls table.intern(s)
InternCall(t, s) ==
    /\ symPc[t] = "idle"
    /\ symCalls < MaxInterns
    /\ symPc' = [symPc EXCEPT ![t] = "fast"]
    /\ symArg' = [symArg EXCEPT ![t] = s]
    /\ symCalls' = symCalls + 1
    /\ UNCHANGED <<symStrings, symLookup, symRets>>

\* Fast path: the string is found under the read lock and its id returned,
\* or the call goes on to the slow path
InternFast(t) ==
    /\ symPc[t] = "fast"
    /\ LET r == lookup_get(symLookup, symArg[t]) IN
       IF r # None
       THEN /\ symRets' = symRets \cup {[s |-> symArg[t], id |-> r[2],
                                          path |-> "fast", by |-> t]}
            /\ symPc' = [symPc EXCEPT ![t] = "idle"]
       ELSE /\ symPc' = [symPc EXCEPT ![t] = "slow"]
            /\ UNCHANGED symRets
    /\ UNCHANGED <<symStrings, symLookup, symArg, symCalls>>

\* Slow path: the call holds both write locks until it returns
InternSlow(t) ==
    /\ symPc[t] = "slow"
    /\ LET r == intern_slow(symStrings, symLookup, symArg[t]) IN
       /\ symStrings' = r.strings
       /\ symLookup' = r.lookup
       /\ symRets' = symRets \cup {[s |-> symArg[t], id |-> r.id,
                                     path |-> r.path, by |-> t]}
    /\ symPc' = [symPc EXCEPT ![t] = "idle"]
    /\ UNCHANGED <<symArg, symCalls>>

SymbolNext ==
    /\ \E t \in Interners :
          \/ \E s \in SymbolStrings : InternCall(t, s)
          \/ InternFast(t)
          \/ InternSlow(t)
    /\ UNCHANGED <<coreVars, unifierVars, elabVars, inferVars, levelVars, betaVars, defEqVars, closeVars, envVars, guardVars, topologyVars, capsVars, parserVars, ncacheVars, pollVars, substVars, sortEqVars>>

(***************************************************************************)
(* A typing Context and the ContextGuard that borrows it                   *)
(* (leanr-core/src/context.rs).  While the guard lives it holds the only   *)
(* mutable borrow, so the context changes through the guard alone.         *)
(***************************************************************************)
GuardEntries ==
    { EntryNew("x", Sort0), EntryNew("y", Sort1), EntryWithValue("z", Sort0, mk_nat(1)) }

\* The ways the scope that owns a guard is left
ExitPaths == {"end of scope", "early return", "unwinding"}

\* Context::push, Context::pop
push(entries, entry) == Append(entries, entry)

pop(entries) ==
    IF entries = <<>> THEN entries ELSE SubSeq(entries, 1, Len(entries) - 1)

\* Context::truncate: Vec::truncate keeps a shorter vector as it is
truncate(entries, n) ==
    IF n >= Len(entries) THEN entries ELSE SubSeq(entries, 1, n)

\* Context::mark
mark(entries) == Len(entries)

\* A restore that leaves the pushed entries in place
restore_nothing(entries, m) == entries

\* Context::restore
restore(entries, m) == truncate(entries, m)

NoGuard == [live |-> FALSE, mark |-> 0]

NoDrop == [valid |-> FALSE, path |-> "end of scope", before |-> <<>>, pushed |-> 0]

\* Context::new, no guard
ContextNew ==
    /\ cgEntries = <<>>
    /\ cgGuard = NoGuard
    /\ cgBefore = <<>>
    /\ cgPushed = 0
    /\ cgOps = 0
    /\ cgLast = NoDrop

\* ctx.push(entry) by the owner of the context
ContextPush(entry) ==
    /\ ~cgGuard.live
    /\ cgOps < MaxGuardOps
    /\ cgEntries' = push(cgEntries, entry)
    /\ cgOps' = cgOps + 1
    /\ UNCHANGED <<cgGuard, cgBefore, cgPushed, cgLast>>

\* ctx.pop() by the owner of the context
ContextPop ==
    /\ ~cgGuard.live
    /\ cgOps < MaxGuardOps
    /\ cgEntries' = pop(cgEntries)
    /\ cgOps' = cgOps + 1
    /\ UNCHANGED <<cgGuard, cgBefore, cgPushed, cgLast>>

\* ContextGuard::new(&mut ctx)
GuardNew ==
    /\ ~cgGuard.live
    /\ cgOps < MaxGuardOps
    /\ cgGuard' = [live |-> TRUE, mark |-> mark(cgEntries)]
    /\ cgBefore' = cgEntries
    /\ cgPushed' = 0
    /\ cgOps' = cgOps + 1
    /\ UNCHANGED <<cgEntries, cgLast>>

\* guard.push(entry)
GuardPush(entry) ==
    /\ cgGuard.live
    /\ cgOps < MaxGuardOps
    /\ cgEntries' = push(cgEntries, entry)
    /\ cgPushed' = cgPushed + 1
    /\ cgOps' = cgOps + 1
    /\ UNCHANGED <<cgGuard, cgBefore, cgLast>>

\* Drop for ContextGuard, run however the scope is left
GuardDrop(path) ==
    /\ cgGuard.live
    /\ cgEntries' = restore(cgEntries, cgGuard.mark)
    /\ cgGuard' = NoGuard
    /\ cgLast' = [valid |-> TRUE, path |-> path, before |-> cgBefore, pushed |-> cgPushed]
    /\ UNCHANGED <<cgBefore, cgPushed, cgOps>>

GuardNext ==
    /\ \/ \E entry \in GuardEntries : ContextPush(entry)
       \/ ContextPop
       \/ GuardNew
       \/ \E entry \in GuardEntries : GuardPush(entry)
       \/ \E path \in ExitPaths : GuardDrop(path)
    /\ UNCHANGED <<coreVars, unifierVars, elabVars, inferVars, levelVars, betaVars, defEqVars, closeVars, envVars, symbolVars, topologyVars, capsVars, parserVars, ncacheVars, pollVars, substVars, sortEqVars>>

(***************************************************************************)
(* A Topology that agents are added to (runtime/src/topology.rs).  An      *)
(* AgentRef stands for its id: the graph is built from ids alone.          *)
(***************************************************************************)
TopologyTypes == {"Mesh", "Ring", "Star", "Hierarchical"}
TopologyAgentIds == 1..MaxTopologyIds

\* connections.entry(other_id).or_insert_with(Vec::new).push(agent_id)
entry_push(conn, other_id, agent_id) ==
    (other_id :> Append(IF other_id \in DOMAIN conn THEN conn[other_id] ELSE <<>>, agent_id)) @@ conn

RECURSIVE entry_push_each(_, _, _)
entry_push_each(conn, others, agent_id) ==
    IF others = <<>> THEN conn
    ELSE entry_push_each(entry_push(conn, Head(others), agent_id), Tail(others), agent_id)

connect_mesh(agents, conn, agent_id) ==
    LET others == SelectSeq(agents, LAMBDA id : id # agent_id) IN
    entry_push_each((agent_id :> others) @@ conn, others, agent_id)

\* agents already holds the new agent: the new agent points at the first
\* agent and the agent before it is re-pointed at the new one
connect_ring(agents, conn, agent_id) ==
    LET n == Len(agents) IN
    IF n = 1 THEN (agent_id :> <<>>) @@ conn
    ELSE LET prev_id == agents[n - 1]
             next_id == agents[1]
             inserted == (agent_id :> <<next_id>>) @@ conn
         IN  IF prev_id \in DOMAIN inserted
             THEN (prev_id :> <<agent_id>>) @@ inserted
             ELSE inserted

connect_star(agents, conn, agent_id) ==
    LET n == Len(agents) IN
    IF n = 1 THEN (agent_id :> <<>>) @@ conn
    ELSE LET hub_id == agents[1] IN
         IF agent_id = hub_id
         THEN (hub_id :> Tail(agents)) @@ conn
         ELSE entry_push((agent_id :> <<hub_id>>) @@ conn, hub_id, agent_id)

connect_hierarchical(agents, conn, agent_id) ==
    LET n == Len(agents) IN
    IF n = 1 THEN (agent_id :> <<>>) @@ conn
    ELSE LET idx == n - 1
             parent_idx == (idx - 1) \div 2
             parent_id == agents[parent_idx + 1]
         IN  entry_push((agent_id :> <<parent_id>>) @@ conn, parent_id, agent_id)

\* Topology::neighbors: the connected ids that are ids of agents
neighbors(agents, conn, agent_id) ==
    IF agent_id \in DOMAIN conn
    THEN SelectSeq(conn[agent_id], LAMBDA id : \E k \in 1..Len(agents) : agents[k] = id)
    ELSE <<>>

\* Topology::new(Ring)
TopologyIdle ==
    /\ topType = "Ring"
    /\ topAgents = <<>>
    /\ topConn = <<>>

\* Topology::new(topology_type)
TopologyNew ==
    /\ topType \in TopologyTypes
    /\ topAgents = <<>>
    /\ topConn = <<>>

\* topology.add_agent(agent)
AddAgent(agent_id) ==
    /\ Len(topAgents) < MaxTopologyAdds
    /\ LET agents == Append(topAgents, agent_id) IN
       /\ topAgents' = agents
       /\ topConn' = CASE topType = "Mesh" -> connect_mesh(agents, topConn, agent_id)
                       [] topType = "Ring" -> connect_ring(agents, topConn, agent_id)
                       [] topType = "Star" -> connect_star(agents, topConn, agent_id)
                       [] topType = "Hierarchical" -> connect_hierarchical(agents, topConn, agent_id)
    /\ UNCHANGED topType

TopologyNext ==
    /\ \E agent_id \in TopologyAgentIds : AddAgent(agent_id)
    /\ UNCHANGED <<coreVars, unifierVars, elabVars, inferVars, levelVars, betaVars, defEqVars, closeVars, envVars, symbolVars, guardVars, capsVars, parserVars, ncacheVars, pollVars, substVars, sortEqVars>>

(***************************************************************************)
(* Capability-tagged values (runtime/src/capabilities.rs, message.rs).     *)
(* Every Tracked or Message value made by new owns a payload of its own;   *)
(* a value made from another one holds a copy of that one's payload.       *)
(***************************************************************************)
RefCaps == {"Iso", "Val", "Ref", "Tag"}
SendCaps == {"Iso", "Val", "Tag"}

\* RefCap::UNIQUE
UNIQUE(cap) == cap = "Iso"

Live(h) == h \in 1..Len(capValues) /\ capValues[h].live

\* No value yet
NoValues ==
    /\ capValues = <<>>
    /\ capPayloads = 0
    /\ capShared = "none"

\* Tracked::<T, Cap>::new(data), Message::<T, Cap>::new(payload)
ValueNew(kind, cap) ==
    /\ Len(capValues) < MaxValues
    /\ kind = "Message" => cap \in SendCaps
    /\ capValues' = Append(capValues, [kind |-> kind, cap |-> cap,
                                       payload |-> capPayloads + 1, live |-> TRUE])
    /\ capPayloads' = capPayloads + 1
    /\ UNCHANGED capShared

\* tracked.share(): a copy unless the capability is unique
TrackedShare(h) ==
    /\ Live(h) /\ capValues[h].kind = "Tracked"
    /\ Len(capValues) < MaxValues
    /\ IF ~UNIQUE(capValues[h].cap)
       THEN /\ capValues' = Append(capValues, capValues[h])
            /\ capShared' = "Some"
       ELSE /\ capShared' = "None"
            /\ UNCHANGED capValues
    /\ UNCHANGED capPayloads

\* message.share(), defined for Message<T, Val> alone
MessageShare(h) ==
    /\ Live(h) /\ capValues[h].kind = "Message" /\ capValues[h].cap = "Val"
    /\ Len(capValues) < MaxValues
    /\ capValues' = Append(capValues, capValues[h])
    /\ capShared' = "Some"
    /\ UNCHANGED capPayloads

\* value.clone(): the derived Clone of Tracked and of Message, for every
\* capability when the payload type is Clone
DerivedClone(h) ==
    /\ Live(h)
    /\ Len(capValues) < MaxValues
    /\ capValues' = Append(capValues, capValues[h])
    /\ UNCHANGED <<capPayloads, capShared>>

\* tracked.into_inner(), message.into_payload(), or the value is dropped
IntoInner(h) ==
    /\ Live(h)
    /\ capValues' = [capValues EXCEPT ![h].live = FALSE]
    /\ UNCHANGED <<capPayloads, capShared>>

\* Tracked::<T, Val>::from(iso): the Iso value is consumed
ValFromIso(h) ==
    /\ Live(h) /\ capValues[h].kind = "Tracked" /\ capValues[h].cap = "Iso"
    /\ Len(capValues) < MaxValues
    /\ capValues' = Append([capValues EXCEPT ![h].live = FALSE],
                           [capValues[h] EXCEPT !.cap = "Val"])
    /\ UNCHANGED <<capPayloads, capShared>>

CapsNext ==
    /\ \/ \E kind \in {"Tracked", "Message"}, cap \in RefCaps : ValueNew(kind, cap)
       \/ \E h \in 1..MaxValues :
             \/ TrackedShare(h)
             \/ MessageShare(h)
             \/ DerivedClone(h)
             \/ IntoInner(h)
             \/ ValFromIso(h)
    /\ UNCHANGED <<coreVars, unifierVars, elabVars, inferVars, levelVars, betaVars, defEqVars, closeVars, envVars, symbolVars, guardVars, topologyVars, parserVars, ncacheVars, pollVars, substVars, sortEqVars>>

(***************************************************************************)
(* The expression parser (leanr-syntax/src/parser.rs) over the tokens the   *)
(* lexer hands it: a token is its kind and its text, the last token is Eof, *)
(* spans are left out.  Positions count from 1.                             *)
(***************************************************************************)
Tok(kind, text) == [kind |-> kind, text |-> text]

TokEof == Tok("Eof", "")

TokenInputs ==
    { Tok("Ident", "A"), Tok("Ident", "B"), Tok("Ident", "f"),
      Tok("Arrow", "->"), Tok("LParen", "("), Tok("RParen", ")") }

RECURSIVE TokenSeqs(_)
TokenSeqs(n) ==
    IF n = 0 THEN {<<>>}
    ELSE LET shorter == TokenSeqs(n - 1) IN
         shorter \cup {Append(s, t) : s \in {x \in shorter : Len(x) = n - 1}, t \in TokenInputs}

ExprArrow(from, to) == <<"Arrow", from, to>>

ExprApp(func, args) == <<"App", func, args>>

ExprParen(expr) == <<"Paren", expr>>

ParseOk(expr, pos) == [ok |-> TRUE, expr |-> expr, pos |-> pos]

ParseErr(pos) == [ok |-> FALSE, expr |-> <<"ParseError">>, pos |-> pos]

\* Parser::current: the token at pos, the last token when pos is past the end
current(tokens, pos) == tokens[IF pos < Len(tokens) THEN pos ELSE Len(tokens)]

\* Parser::advance: pos stays on the last token
advance(tokens, pos) == IF pos < Len(tokens) THEN pos + 1 ELSE pos

is_eof(tokens, pos) == current(tokens, pos).kind = "Eof"

\* Parser::check
check_token(tokens, pos, kind) == ~is_eof(tokens, pos) /\ current(tokens, pos).kind = kind

is_atomic_start(tokens, pos) == current(tokens, pos).kind \in {"Ident", "LParen"}

RECURSIVE parse_expr(_, _)
RECURSIVE parse_atomic_expr(_, _)
RECURSIVE parse_app_args(_, _, _)
RECURSIVE parse_arrow_rest(_, _, _)

\* Parser::parse_atomic_expr: an identifier or a parenthesised expression
parse_atomic_expr(tokens, pos) ==
    LET token == current(tokens, pos) IN
    CASE token.kind = "Ident" -> ParseOk(Ident(token.text), advance(tokens, pos))
      [] token.kind = "LParen" ->
            LET inner == parse_expr(tokens, advance(tokens, pos)) IN
            IF ~inner.ok THEN inner
            ELSE IF check_token(tokens, inner.pos, "RParen")
                 THEN ParseOk(ExprParen(inner.expr), advance(tokens, inner.pos))
                 ELSE ParseErr(inner.pos)
      [] OTHER -> ParseErr(pos)

\* The while loop of parse_app_expr: atomic expressions are pushed to args
\* as long as one starts at pos
parse_app_args(tokens, pos, args) ==
    IF ~is_eof(tokens, pos) /\ is_atomic_start(tokens, pos)
    THEN LET arg == parse_atomic_expr(tokens, pos) IN
         IF ~arg.ok THEN [ok |-> FALSE, args |-> args, pos |-> arg.pos]
         ELSE parse_app_args(tokens, arg.pos, Append(args, arg.expr))
    ELSE [ok |-> TRUE, args |-> args, pos |-> pos]

\* Parser::parse_app_expr
parse_app_expr(tokens, pos) ==
    LET func == parse_atomic_expr(tokens, pos) IN
    IF ~func.ok THEN func
    ELSE LET rest == parse_app_args(tokens, func.pos, <<>>) IN
         IF ~rest.ok THEN ParseErr(rest.pos)
         ELSE IF rest.args = <<>> THEN func
              ELSE ParseOk(ExprApp(func.expr, rest.args), rest.pos)

\* Parser::parse_forall_expr down to parse_match_expr: without a forall, fun,
\* let or match token each of them hands on to the next, down to parse_app_expr
parse_forall_expr(tokens, pos) == parse_app_expr(tokens, pos)

\* The while loop of parse_arrow_expr: at an arrow the next operand is
\* parsed and the arrow built so far becomes the `from` of the new one
parse_arrow_rest(tokens, pos, expr) ==
    IF check_token(tokens, pos, "Arrow")
    THEN LET to == parse_forall_expr(tokens, advance(tokens, pos)) IN
         IF ~to.ok THEN to
         ELSE parse_arrow_rest(tokens, to.pos, ExprArrow(expr, to.expr))
    ELSE ParseOk(expr, pos)

\* Parser::parse_arrow_expr
parse_arrow_expr(tokens, pos) ==
    LET first == parse_forall_expr(tokens, pos) IN
    IF ~first.ok THEN first ELSE parse_arrow_rest(tokens, first.pos, first.expr)

\* Parser::parse_expr
parse_expr(tokens, pos) == parse_arrow_expr(tokens, pos)

NoParse == [done |-> FALSE, ok |-> FALSE, expr |-> <<"ParseError">>, pos |-> 1]

\* No parser at work
ParserIdle ==
    /\ psTokens = <<TokEof>>
    /\ psLast = NoParse

\* Parser::new(tokens) on the tokens of some source text
ParserNew ==
    /\ psTokens \in {Append(s, TokEof) : s \in TokenSeqs(MaxTokens)}
    /\ psLast = NoParse

\* parser.parse_expr()
ParseExpr ==
    /\ ~psLast.done
    /\ LET r == parse_expr(psTokens, 1) IN
       psLast' = [done |-> TRUE, ok |-> r.ok, expr |-> r.expr, pos |-> r.pos]
    /\ UNCHANGED psTokens

ParserNext ==
    /\ ParseExpr
    /\ UNCHANGED <<coreVars, unifierVars, elabVars, inferVars, levelVars, betaVars, defEqVars, closeVars, envVars, symbolVars, guardVars, topologyVars, capsVars, ncacheVars, pollVars, substVars, sortEqVars>>

(***************************************************************************)
(* The NormalizationCache of the evaluator (leanr-eval-lite/src/cache.rs): *)
(* a map from terms to their WHNF, a capacity and the order of insertion.  *)
(***************************************************************************)
CacheTerms == 1..MaxCacheTerms
CacheWhnfs == {10, 20}

\* NormalizationCache::evict_lru: the first entry of access_order leaves the
\* order and, if it is a key of the map, the map
evict_lru(c) ==
    IF c.access_order = <<>> THEN c
    ELSE LET oldest == Head(c.access_order) IN
         [c EXCEPT !.cache = [k \in DOMAIN c.cache \ {oldest} |-> c.cache[k]],
                   !.access_order = Tail(c.access_order)]

\* NormalizationCache::insert
insert(c, t, w) ==
    LET evicted == IF Cardinality(DOMAIN c.cache) >= c.capacity /\ t \notin DOMAIN c.cache
                   THEN evict_lru(c) ELSE c
    IN  [evicted EXCEPT !.cache = (t :> w) @@ evicted.cache,
                        !.access_order = Append(evicted.access_order, t)]

\* NormalizationCache::clear
clear(c) == [c EXCEPT !.cache = <<>>, !.access_order = <<>>]

\* NormalizationCache::new(n)
CacheNew(n) ==
    /\ nc = [cache |-> <<>>, capacity |-> n, access_order |-> <<>>]
    /\ ncInserts = 0

CacheInsert(t, w) ==
    /\ ncInserts < MaxInserts
    /\ nc' = insert(nc, t, w)
    /\ ncInserts' = ncInserts + 1

CacheClear ==
    /\ nc.access_order # <<>>
    /\ nc' = clear(nc)
    /\ UNCHANGED ncInserts

CacheInit == \E n \in 1..MaxCacheCapacity : CacheNew(n)

CacheNext ==
    /\ \/ \E t \in CacheTerms, w \in CacheWhnfs : CacheInsert(t, w)
       \/ CacheClear
    /\ UNCHANGED <<coreVars, unifierVars, elabVars, inferVars, levelVars, betaVars, defEqVars, closeVars, envVars, symbolVars, guardVars, topologyVars, capsVars, parserVars, pollVars, substVars, sortEqVars>>

(***************************************************************************)
(* Tasks and their futures (runtime/src/scheduler.rs, Task and TaskWaker). *)
(* A future is the number of polls it still answers with Pending; a task   *)
(* holds Some(future) or None.  A worker loop that found a task in a queue *)
(* took it out of the queue before it calls run.                           *)
(***************************************************************************)
PollTaskIds == 1..MaxPollTasks

FutureSome(pendings) == [some |-> TRUE, pendings |-> pendings]

FutureNone == [some |-> FALSE, pendings |-> 0]

\* Task::run: take the future and poll it once; a Pending future is put
\* back, and the result tells whether the task completed
run(future) ==
    IF future.some
    THEN IF future.pendings > 0
         THEN [future |-> FutureSome(future.pendings - 1), polled |-> TRUE, completed |-> FALSE]
         ELSE [future |-> FutureNone, polled |-> TRUE, completed |-> TRUE]
    ELSE [future |-> future, polled |-> FALSE, completed |-> TRUE]

\* A scheduler before any submit
PollIdle ==
    /\ tkQueue = <<>>
    /\ tkFuture = [t \in PollTaskIds |-> FutureNone]
    /\ tkPolls = [t \in PollTaskIds |-> 0]
    /\ tkReady = [t \in PollTaskIds |-> FALSE]
    /\ tkWoken = [t \in PollTaskIds |-> 0]
    /\ tkCounter = 1

\* Scheduler::submit of a future that answers Pending `pendings` times:
\* Task::with_priority, then the push to a worker queue
PollSubmit(pendings) ==
    /\ tkCounter <= MaxPollTasks
    /\ tkFuture' = [tkFuture EXCEPT ![tkCounter] = FutureSome(pendings)]
    /\ tkQueue' = Append(tkQueue, tkCounter)
    /\ tkCounter' = tkCounter + 1
    /\ UNCHANGED <<tkPolls, tkReady, tkWoken>>

\* worker_loop: a task taken from a queue is run; what run returns is not
\* looked at and the loop goes on to its next iteration
PollRun ==
    /\ tkQueue # <<>>
    /\ LET task == Head(tkQueue)
           r == run(tkFuture[task])
       IN  /\ tkFuture' = [tkFuture EXCEPT ![task] = r.future]
           /\ tkPolls' = [tkPolls EXCEPT ![task] = IF r.polled THEN @ + 1 ELSE @]
           /\ tkReady' = [tkReady EXCEPT ![task] = @ \/ (r.polled /\ r.completed)]
    /\ tkQueue' = Tail(tkQueue)
    /\ UNCHANGED <<tkWoken, tkCounter>>

\* TaskWaker::wake, called by what the Pending future waits for: a trace
\* line
PollWake(task) ==
    /\ tkPolls[task] > 0
    /\ ~tkReady[task]
    /\ tkWoken[task] < MaxWakes
    /\ tkWoken' = [tkWoken EXCEPT ![task] = @ + 1]
    /\ UNCHANGED <<tkQueue, tkFuture, tkPolls, tkReady, tkCounter>>

PollNext ==
    /\ \/ \E pendings \in 0..MaxPendings : PollSubmit(pendings)
       \/ PollRun
       \/ \E task \in PollTaskIds : PollWake(task)
    /\ UNCHANGED <<coreVars, unifierVars, elabVars, inferVars, levelVars, betaVars, defEqVars, closeVars, envVars, symbolVars, guardVars, topologyVars, capsVars, parserVars, ncacheVars, substVars, sortEqVars>>

\* A worker loop that runs goes on taking tasks, and what a future waits
\* for happens and wakes it
PollFairness ==
    /\ WF_vars(PollRun /\ UNCHANGED <<coreVars, unifierVars, elabVars, inferVars, levelVars, betaVars, defEqVars, closeVars, envVars, symbolVars, guardVars, topologyVars, capsVars, parserVars, ncacheVars, substVars, sortEqVars>>)
    /\ \A task \in PollTaskIds : WF_vars(PollWake(task) /\ UNCHANGED <<coreVars, unifierVars, elabVars, inferVars, levelVars, betaVars, defEqVars, closeVars, envVars, symbolVars, guardVars, topologyVars, capsVars, parserVars, ncacheVars, substVars, sortEqVars>>)

(***************************************************************************)
(* Converter::substitute applied to a term, an index and a replacement     *)
(* (leanr-core/src/conversion.rs).                                         *)
(***************************************************************************)
SubstTerms ==
    { Var0, mk_var(1), mk_app(Var0, mk_var(1)), Sort0, mk_const("c"),
      mk_lam(Binder("y", Sort0), Var0),
      mk_lam(Binder("y", Sort0), mk_var(1)),
      mk_pi(Binder("y", Var0), mk_var(1)),
      mk_let(Binder("y", Sort0), Var0, mk_var(1)),
      mk_lam(Binder("y", Sort0), mk_lam(Binder("z", Sort0), mk_var(2))) }

SubstReplacements == {Var0, mk_var(1), mk_nat(42), mk_app(mk_const("c"), Var0)}

NoSubst == [done |-> FALSE, result |-> Var0]

\* No call made
SubstIdle ==
    /\ sbTerm = Var0
    /\ sbIdx = 0
    /\ sbReplacement = Var0
    /\ sbLast = NoSubst

\* The arguments of a call
SubstInit ==
    /\ sbTerm \in SubstTerms
    /\ sbIdx \in 0..MaxSubstIdx
    /\ sbReplacement \in SubstReplacements
    /\ sbLast = NoSubst

\* conv.substitute(arena, term, idx, replacement)
SubstCall ==
    /\ ~sbLast.done
    /\ sbLast' = [done |-> TRUE, result |-> substitute(sbTerm, sbIdx, sbReplacement)]
    /\ UNCHANGED <<sbTerm, sbIdx, sbReplacement>>

SubstNext ==
    /\ SubstCall
    /\ UNCHANGED <<coreVars, unifierVars, elabVars, inferVars, levelVars, betaVars, defEqVars, closeVars, envVars, symbolVars, guardVars, topologyVars, capsVars, parserVars, ncacheVars, pollVars, sortEqVars>>

(***************************************************************************)
(* Converter::is_def_eq on two sorts (leanr-core/src/conversion.rs); the   *)
(* levels are LevelIds of one LevelArena.                                  *)
(***************************************************************************)
SortLevels == LevelsOfDepth(1)

NoSortEq == [done |-> FALSE, ok |-> FALSE, val |-> FALSE]

\* No call made
SortEqIdle ==
    /\ seLeft = LZero
    /\ seRight = LZero
    /\ seLast = NoSortEq

\* The levels of the two sorts
SortEqInit ==
    /\ seLeft \in SortLevels
    /\ seRight \in SortLevels
    /\ seLast = NoSortEq

\* conv.is_def_eq(arena, env, ctx, Sort(l1), Sort(l2)) on a new converter,
\* with an empty environment and context
SortEqCall ==
    /\ ~seLast.done
    /\ LET r == is_def_eq(ConverterNew, EmptyEnv, <<>>, mk_sort(seLeft), mk_sort(seRight)) IN
       seLast' = [done |-> TRUE, ok |-> r.ok, val |-> r.val]
    /\ UNCHANGED <<seLeft, seRight>>

SortEqNext ==
    /\ SortEqCall
    /\ UNCHANGED <<coreVars, unifierVars, elabVars, inferVars, levelVars, betaVars, defEqVars, closeVars, envVars, symbolVars, guardVars, topologyVars, capsVars, parserVars, ncacheVars, pollVars, substVars>>

\* Every specification starts all components in their initial state; the
\* mailbox specification draws its configuration.
IdleMailbox == MailboxIdle(DefaultMailboxConfig)

IdleSched == SchedNew(1)

IdleQuorum == QuorumNew(1, 1, 0)

IdleConv == ConvNew(DEFAULT_FUEL, EmptyEnv)

IdleInfer == InferNew(EmptyEnv)

IdleBeta == BetaNew(0, EmptyEnv)

IdleFront == UnifierNew /\ ElabInit /\ IdleInfer /\ LevelIdle /\ IdleBeta /\ DefEqIdle /\ Spawn /\ EnvNew /\ SymbolTableNew /\ ContextNew /\ TopologyIdle /\ NoValues /\ ParserIdle /\ CacheNew(1) /\ PollIdle /\ SubstIdle /\ SortEqIdle

IdleRest == IdleConv /\ KernelNew /\ IdleFront

Init == ArenaInit /\ LeaseInit /\ IdleMailbox /\ IdleSched /\ IdleQuorum /\ IdleRest

InitMailbox == ArenaInit /\ LeaseInit /\ MailboxInit /\ IdleSched /\ IdleQuorum /\ IdleRest

InitSched == ArenaInit /\ LeaseInit /\ IdleMailbox /\ SchedInit /\ IdleQuorum /\ IdleRest

InitQuorum == ArenaInit /\ LeaseInit /\ IdleMailbox /\ IdleSched /\ QuorumInit /\ IdleRest

InitConv ==
    ArenaInit /\ LeaseInit /\ IdleMailbox /\ IdleSched /\ IdleQuorum /\ ConvInit /\ KernelNew
    /\ IdleFront

InitKernel ==
    ArenaInit /\ LeaseInit /\ IdleMailbox /\ IdleSched /\ IdleQuorum /\ IdleConv /\ KernelNew
    /\ IdleFront

SpecArena == Init /\ [][ArenaNext]_vars

SpecLease == Init /\ [][LeaseNext]_vars

SpecMailbox == InitMailbox /\ [][MailboxNext]_vars

SpecSched == InitSched /\ [][SchedNext]_vars

FairSpecSched == InitSched /\ [][SchedNext]_vars /\ SchedFairness

SpecQuorum == InitQuorum /\ [][QuorumNext]_vars

SpecConv == InitConv /\ [][ConvNext]_vars

SpecKernel == InitKernel /\ [][KernelNext]_vars

SpecUnifier == Init /\ [][UnifierNext]_vars

SpecElab == Init /\ [][ElabNext]_vars

InitInfer ==
    ArenaInit /\ LeaseInit /\ IdleMailbox /\ IdleSched /\ IdleQuorum /\ IdleConv /\ KernelNew
    /\ UnifierNew /\ ElabInit /\ InferInit /\ LevelIdle /\ IdleBeta /\ DefEqIdle /\ Spawn /\ EnvNew /\ SymbolTableNew /\ ContextNew /\ TopologyIdle /\ NoValues /\ ParserIdle /\ CacheNew(1) /\ PollIdle /\ SubstIdle /\ SortEqIdle

SpecInfer == InitInfer /\ [][InferNext]_vars

InitLevel ==
    ArenaInit /\ LeaseInit /\ IdleMailbox /\ IdleSched /\ IdleQuorum /\ IdleConv /\ KernelNew
    /\ UnifierNew /\ ElabInit /\ IdleInfer /\ LevelInit /\ IdleBeta /\ DefEqIdle /\ Spawn /\ EnvNew /\ SymbolTableNew /\ ContextNew /\ TopologyIdle /\ NoValues /\ ParserIdle /\ CacheNew(1) /\ PollIdle /\ SubstIdle /\ SortEqIdle

SpecLevel == InitLevel /\ [][LevelNext]_vars

InitBeta ==
    ArenaInit /\ LeaseInit /\ IdleMailbox /\ IdleSched /\ IdleQuorum /\ IdleConv /\ KernelNew
    /\ UnifierNew /\ ElabInit /\ IdleInfer /\ LevelIdle /\ BetaInit /\ DefEqIdle /\ Spawn /\ EnvNew /\ SymbolTableNew /\ ContextNew /\ TopologyIdle /\ NoValues /\ ParserIdle /\ CacheNew(1) /\ PollIdle /\ SubstIdle /\ SortEqIdle

SpecBeta == InitBeta /\ [][BetaNext]_vars

InitDefEq ==
    ArenaInit /\ LeaseInit /\ IdleMailbox /\ IdleSched /\ IdleQuorum /\ IdleConv /\ KernelNew
    /\ UnifierNew /\ ElabInit /\ IdleInfer /\ LevelIdle /\ IdleBeta /\ DefEqInit /\ Spawn /\ EnvNew /\ SymbolTableNew /\ ContextNew /\ TopologyIdle /\ NoValues /\ ParserIdle /\ CacheNew(1) /\ PollIdle /\ SubstIdle /\ SortEqIdle

SpecDefEq == InitDefEq /\ [][DefEqNext]_vars

InitCloseX ==
    ArenaInit /\ LeaseInit /\ IdleMailbox /\ IdleSched /\ IdleQuorum /\ IdleConv /\ KernelNew
    /\ UnifierNew /\ ElabInit /\ IdleInfer /\ LevelIdle /\ IdleBeta /\ DefEqIdle /\ Spawn /\ EnvNew /\ SymbolTableNew /\ ContextNew /\ TopologyIdle /\ NoValues /\ ParserIdle /\ CacheNew(1) /\ PollIdle /\ SubstIdle /\ SortEqIdle

SpecClose == InitCloseX /\ [][CloseNext]_vars

InitEnvX ==
    ArenaInit /\ LeaseInit /\ IdleMailbox /\ IdleSched /\ IdleQuorum /\ IdleConv /\ KernelNew
    /\ UnifierNew /\ ElabInit /\ IdleInfer /\ LevelIdle /\ IdleBeta /\ DefEqIdle /\ Spawn /\ EnvNew /\ SymbolTableNew /\ ContextNew /\ TopologyIdle /\ NoValues /\ ParserIdle /\ CacheNew(1) /\ PollIdle /\ SubstIdle /\ SortEqIdle

SpecEnv == InitEnvX /\ [][EnvNext]_vars

InitSymbolX ==
    ArenaInit /\ LeaseInit /\ IdleMailbox /\ IdleSched /\ IdleQuorum /\ IdleConv /\ KernelNew
    /\ UnifierNew /\ ElabInit /\ IdleInfer /\ LevelIdle /\ IdleBeta /\ DefEqIdle /\ Spawn /\ EnvNew /\ SymbolTableNew /\ ContextNew /\ TopologyIdle /\ NoValues /\ ParserIdle /\ CacheNew(1) /\ PollIdle /\ SubstIdle /\ SortEqIdle

SpecSymbol == InitSymbolX /\ [][SymbolNext]_vars

InitGuardX ==
    ArenaInit /\ LeaseInit /\ IdleMailbox /\ IdleSched /\ IdleQuorum /\ IdleConv /\ KernelNew
    /\ UnifierNew /\ ElabInit /\ IdleInfer /\ LevelIdle /\ IdleBeta /\ DefEqIdle /\ Spawn /\ EnvNew /\ SymbolTableNew /\ ContextNew /\ TopologyIdle /\ NoValues /\ ParserIdle /\ CacheNew(1) /\ PollIdle /\ SubstIdle /\ SortEqIdle

SpecGuard == InitGuardX /\ [][GuardNext]_vars

InitTopologyX ==
    ArenaInit /\ LeaseInit /\ IdleMailbox /\ IdleSched /\ IdleQuorum /\ IdleConv /\ KernelNew
    /\ UnifierNew /\ ElabInit /\ IdleInfer /\ LevelIdle /\ IdleBeta /\ DefEqIdle /\ Spawn /\ EnvNew /\ SymbolTableNew /\ ContextNew /\ TopologyNew /\ NoValues /\ ParserIdle /\ CacheNew(1) /\ PollIdle /\ SubstIdle /\ SortEqIdle

SpecTopology == InitTopologyX /\ [][TopologyNext]_vars

InitCapsX ==
    ArenaInit /\ LeaseInit /\ IdleMailbox /\ IdleSched /\ IdleQuorum /\ IdleConv /\ KernelNew
    /\ UnifierNew /\ ElabInit /\ IdleInfer /\ LevelIdle /\ IdleBeta /\ DefEqIdle /\ Spawn /\ EnvNew /\ SymbolTableNew /\ ContextNew /\ TopologyIdle /\ NoValues /\ ParserIdle /\ CacheNew(1) /\ PollIdle /\ SubstIdle /\ SortEqIdle

SpecCaps == InitCapsX /\ [][CapsNext]_vars

InitParserX ==
    ArenaInit /\ LeaseInit /\ IdleMailbox /\ IdleSched /\ IdleQuorum /\ IdleConv /\ KernelNew
    /\ UnifierNew /\ ElabInit /\ IdleInfer /\ LevelIdle /\ IdleBeta /\ DefEqIdle /\ Spawn /\ EnvNew /\ SymbolTableNew /\ ContextNew /\ TopologyIdle /\ NoValues /\ ParserNew /\ CacheNew(1) /\ PollIdle /\ SubstIdle /\ SortEqIdle

SpecParser == InitParserX /\ [][ParserNext]_vars

InitNCacheX ==
    ArenaInit /\ LeaseInit /\ IdleMailbox /\ IdleSched /\ IdleQuorum /\ IdleConv /\ KernelNew
    /\ UnifierNew /\ ElabInit /\ IdleInfer /\ LevelIdle /\ IdleBeta /\ DefEqIdle /\ Spawn /\ EnvNew /\ SymbolTableNew /\ ContextNew /\ TopologyIdle /\ NoValues /\ ParserIdle /\ CacheInit /\ PollIdle /\ SubstIdle /\ SortEqIdle

SpecNCache == InitNCacheX /\ [][CacheNext]_vars

InitPollX ==
    ArenaInit /\ LeaseInit /\ IdleMailbox /\ IdleSched /\ IdleQuorum /\ IdleConv /\ KernelNew
    /\ UnifierNew /\ ElabInit /\ IdleInfer /\ LevelIdle /\ IdleBeta /\ DefEqIdle /\ Spawn /\ EnvNew /\ SymbolTableNew /\ ContextNew /\ TopologyIdle /\ NoValues /\ ParserIdle /\ CacheNew(1) /\ PollIdle /\ SubstIdle /\ SortEqIdle

SpecPoll == InitPollX /\ [][PollNext]_vars

InitSubstX ==
    ArenaInit /\ LeaseInit /\ IdleMailbox /\ IdleSched /\ IdleQuorum /\ IdleConv /\ KernelNew
    /\ UnifierNew /\ ElabInit /\ IdleInfer /\ LevelIdle /\ IdleBeta /\ DefEqIdle /\ Spawn /\ EnvNew /\ SymbolTableNew /\ ContextNew /\ TopologyIdle /\ NoValues /\ ParserIdle /\ CacheNew(1) /\ PollIdle /\ SubstInit /\ SortEqIdle

SpecSubst == InitSubstX /\ [][SubstNext]_vars

InitSortEqX ==
    ArenaInit /\ LeaseInit /\ IdleMailbox /\ IdleSched /\ IdleQuorum /\ IdleConv /\ KernelNew
    /\ UnifierNew /\ ElabInit /\ IdleInfer /\ LevelIdle /\ IdleBeta /\ DefEqIdle /\ Spawn /\ EnvNew /\ SymbolTableNew /\ ContextNew /\ TopologyIdle /\ NoValues /\ ParserIdle /\ CacheNew(1) /\ PollIdle /\ SubstIdle /\ SortEqInit

SpecSortEq == InitSortEqX /\ [][SortEqNext]_vars

-----------------------------------------------------------------------------
(***************************************************************************)
(* C1 (hash-consing): over all intern / mk_* calls made on one arena, two   *)
(* returned TermIds are equal if and only if the TermKinds handed to the    *)
(* calls are structurally equal.                                           *)
(***************************************************************************)
C1_HashConsing ==
    \A c1 \in interned, c2 \in interned : (c1[2] = c2[2]) <=> (c1[1] = c2[1])

\* Two different kinds with the same hash were interned, and an earlier kind
\* was interned again and found.
C1_Witness ==
    /\ \E c1 \in interned, c2 \in interned :
          c1[1] # c2[1] /\ TermHash(c1[1]) = TermHash(c2[1])
    /\ stats.cache_hits > 0

(***************************************************************************)
(* C2 (lease exclusivity): at every instant each resource has at most one   *)
(* lease that was granted, is not released and has not expired.            *)
(***************************************************************************)
LiveLeases(r) ==
    {g \in granted : g.resource = r /\ ~g.released /\ g.expires > now}

C2_LeaseExclusive == \A r \in Resources : Cardinality(LiveLeases(r)) <= 1

\* A resource was granted twice (the first lease expired unreleased) and the
\* second lease is live.
C2_Witness ==
    \E r \in Resources :
        /\ Cardinality({g \in granted : g.resource = r /\ ~g.released}) >= 2
        /\ Cardinality(LiveLeases(r)) = 1

(***************************************************************************)
(* C3 (scheduler completeness): for every worker count, a task submitted    *)
(* while the scheduler is running is eventually run, exactly once, as long  *)
(* as the scheduler keeps running.                                         *)
(***************************************************************************)
C3_EventuallyRunOnce ==
    /\ [](\A t \in TaskIds : runCount[t] <= 1)
    /\ \A t \in TaskIds :
          (t \in whileRunning /\ running) ~> (runCount[t] = 1 \/ ~running)

\* The same statement for schedulers with at least two workers.
C3_TwoWorkersOrMore ==
    /\ [](\A t \in TaskIds : runCount[t] <= 1)
    /\ \A t \in TaskIds :
          (workerCount >= 2 /\ t \in whileRunning /\ running)
              ~> (runCount[t] = 1 \/ ~running)

(***************************************************************************)
(* C4 (mailbox FIFO): two messages of one sender are received in the order  *)
(* in which that sender sent them.                                         *)
(***************************************************************************)
C4_Fifo ==
    \A i \in 1..Len(received), j \in 1..Len(received) :
        (i < j /\ received[i][1] = received[j][1]) => received[i][2] < received[j][2]

\* Both senders' messages were received, and two messages of one sender.
C4_Witness ==
    /\ \E i \in 1..Len(received), j \in 1..Len(received) :
          i < j /\ received[i][1] = received[j][1]
    /\ \E i \in 1..Len(received), j \in 1..Len(received) :
          received[i][1] # received[j][1]

(***************************************************************************)
(* C5 (backpressure threshold): with one sender and no receive in between,  *)
(* a mailbox with high-water mark h accepts exactly h sends, and the next   *)
(* send fails with MailboxFull carrying h.                                 *)
(***************************************************************************)
OneSenderNoRecv == sentCount["s2"] = 0 /\ received = <<>>

C5_AcceptsExactlyHighWater ==
    OneSenderNoRecv =>
        /\ accepted <= mbConfig.high_water
        /\ lastFull \in {-1, mbConfig.high_water}

(***************************************************************************)
(* C6 (backpressure hysteresis): once the length has exceeded high_water,   *)
(* no send that starts before the length has fallen to low_water or below  *)
(* is admitted.                                                            *)
(***************************************************************************)
C6_FailsUntilLowWater ==
    [][\A s \in Senders :
          (pressure /\ spc[s] = "idle" /\ rpc = "idle") => spc'[s] # "checked"]_vars

(***************************************************************************)
(* C7 (quorum correctness): quorum returns Ok only if at least threshold    *)
(* agents' responses to the request were received.  An agent can respond    *)
(* only after it has taken the request from its mailbox, so Ok needs at     *)
(* least threshold agents that took the request.                           *)
(***************************************************************************)
C7_OkNeedsResponses ==
    qpc = "ok" => Cardinality(agentTook) >= qThreshold

(***************************************************************************)
(* C8 (kernel soundness gate): check_declaration(d) returns Ok only if the  *)
(* type inferred for d.ty is a sort and, when d has a value, the type       *)
(* inferred for d.value is definitionally equal to d.ty.  The judgements    *)
(* are those of a TypeChecker that starts with an empty whnf cache.         *)
(***************************************************************************)
TypeIsSort(env, decl) ==
    LET t == infer(ConverterNew, env, <<>>, decl.ty) IN
    t.ok /\ ensure_sort(t.cv, env, <<>>, t.val).ok

ValueHasType(env, decl) ==
    decl.value # None =>
        LET v == infer(ConverterNew, env, <<>>, decl.value[2]) IN
        /\ v.ok
        /\ LET eq == is_def_eq(ConverterNew, env, <<>>, v.val, decl.ty) IN
           eq.ok /\ eq.val

C8_OkOnlyIfWellTyped ==
    (declChecks > 0 /\ declLast.ok) =>
        /\ TypeIsSort(declLast.env, declLast.decl)
        /\ ValueHasType(declLast.env, declLast.decl)

(***************************************************************************)
(* C9 (cache transparency): every whnf call that returns a term returns the *)
(* term that the same converter with an empty cache returns for the same    *)
(* term, environment and context.                                          *)
(***************************************************************************)
C9_CacheNeverChangesResult ==
    (whnfCalls > 0 /\ whnfLast.ok) =>
        LET ref == whnf([whnfLast.before EXCEPT !.cache = EmptyCache], convEnv,
                        whnfLast.ctx, whnfLast.term)
        IN  ref.ok => ref.val = whnfLast.val

(***************************************************************************)
(* C10 (fuel): a whnf call performs at most as many reduction steps as the  *)
(* converter had fuel, each step spends one unit of fuel, the only error is *)
(* the Internal out-of-fuel error, returned with the fuel spent, and a term *)
(* without weak head normal form gets that error, never a term.            *)
(***************************************************************************)
StepsOfLast == whnfLast.after.stats.reductions - whnfLast.before.stats.reductions

C10_FuelBoundsWhnf ==
    whnfCalls > 0 =>
        /\ StepsOfLast <= whnfLast.before.fuel
        /\ whnfLast.after.fuel = whnfLast.before.fuel - StepsOfLast
        /\ ~whnfLast.ok => (whnfLast.err = OutOfFuelMsg /\ whnfLast.after.fuel = 0)
        /\ whnfLast.term \in Diverging => ~whnfLast.ok

\* A call on a term without weak head normal form ran out of fuel after at
\* least two reduction steps.
C10_Witness ==
    /\ whnfCalls > 0
    /\ whnfLast.term \in Diverging
    /\ StepsOfLast >= 2
    /\ ~whnfLast.ok
    /\ whnfLast.err = OutOfFuelMsg


(***************************************************************************)
(* Unifier: what a substitution does to a whole term.                      *)
(***************************************************************************)
\* term with every assigned metavariable replaced wherever it occurs; depth
\* bounds the assignments followed along one path, which an acyclic
\* substitution never exceeds
RECURSIVE instantiate(_, _, _)
instantiate(subst, term, depth) ==
    CASE term[1] = "MVar" ->
            IF term[2] \in DOMAIN subst /\ depth > 0
            THEN instantiate(subst, subst[term[2]], depth - 1)
            ELSE term
      [] term[1] = "App" ->
            mk_app(instantiate(subst, term[2], depth), instantiate(subst, term[3], depth))
      [] term[1] \in {"Lam", "Pi"} ->
            <<term[1], [term[2] EXCEPT !.ty = instantiate(subst, @, depth)],
              instantiate(subst, term[3], depth)>>
      [] term[1] = "Let" ->
            mk_let([term[2] EXCEPT !.ty = instantiate(subst, @, depth)],
                   instantiate(subst, term[3], depth),
                   instantiate(subst, term[4], depth))
      [] OTHER -> term

FullSubst(subst, term) == instantiate(subst, term, Cardinality(DOMAIN subst))

\* term with the name, implicit flag and info of every binder blanked
RECURSIVE EraseBinders(_)
EraseBinders(term) ==
    CASE term[1] = "App" -> mk_app(EraseBinders(term[2]), EraseBinders(term[3]))
      [] term[1] \in {"Lam", "Pi"} ->
            <<term[1], Binder("", EraseBinders(term[2].ty)), EraseBinders(term[3])>>
      [] term[1] = "Let" ->
            mk_let(Binder("", EraseBinders(term[2].ty)),
                   EraseBinders(term[3]), EraseBinders(term[4]))
      [] OTHER -> term

SolveReturnedOk == uPc = "idle" /\ uLast = "ok"

(***************************************************************************)
(* C11 as stated: after solve returns Ok, the two sides of every Unify     *)
(* constraint it solved are syntactically identical once the final         *)
(* substitution is applied throughout them.                                *)
(***************************************************************************)
C11_SidesIdentical ==
    SolveReturnedOk =>
        \A c \in uBatch : FullSubst(uSubst, c[2]) = FullSubst(uSubst, c[3])

(***************************************************************************)
(* C11: after solve returns Ok, the two sides of every Unify constraint it *)
(* solved are identical, once the final substitution is applied throughout *)
(* them, up to the names, implicit flags and infos of their binders.       *)
(***************************************************************************)
C11_SidesIdenticalUpToBinders ==
    SolveReturnedOk =>
        \A c \in uBatch :
            EraseBinders(FullSubst(uSubst, c[2])) = EraseBinders(FullSubst(uSubst, c[3]))

\* solve returned Ok after assigning a metavariable for a constraint whose
\* sides were not equal as written
C11_Witness ==
    /\ SolveReturnedOk
    /\ uSubst # EmptySubst
    /\ \E c \in uBatch : c[2] # c[3] /\ MVarsOf(c[2]) \cup MVarsOf(c[3]) # {}

\* solve handled Unify(MVar m, t) with m unassigned and m occurring in t once
\* the assignments are followed
OccursStep ==
    /\ uStep.valid
    /\ uStep.t1[1] = "MVar"
    /\ uStep.t1[2] \notin DOMAIN uStep.before
    /\ uStep.t1[2] \in MVarsOf(FullSubst(uStep.before, uStep.t2))

StepFailedOccurs == ~uStep.ok /\ uStep.err = OccursCheckFailed

(***************************************************************************)
(* C12 as stated: solving Unify(MVar m, t) with m unassigned fails with a  *)
(* UnificationError whenever m occurs in t, occurrence being decided after *)
(* following the assignments of other metavariables.                       *)
(***************************************************************************)
C12_OccursAlwaysFails == OccursStep => StepFailedOccurs

(***************************************************************************)
(* C12: solving Unify(MVar m, t) with m unassigned fails with a            *)
(* UnificationError whenever m occurs in t, after following assignments,   *)
(* and t does not itself resolve to MVar m.                                *)
(***************************************************************************)
C12_ProperOccursFails ==
    (OccursStep /\ FullSubst(uStep.before, uStep.t2) # uStep.t1) => StepFailedOccurs

\* the occurrence is found only by following the assignment of another
\* metavariable
C12_Witness ==
    /\ OccursStep
    /\ StepFailedOccurs
    /\ uStep.t1[2] \notin MVarsOf(uStep.t2)

(***************************************************************************)
(* C13: across unify, add_constraint and solve, failing solves included,   *)
(* a metavariable that has an assignment keeps it: the assignment is       *)
(* neither removed nor replaced.                                           *)
(***************************************************************************)
C13_AssignmentsKept ==
    [][\A m \in DOMAIN uSubst : m \in DOMAIN uSubst' /\ uSubst'[m] = uSubst[m]]_vars

\* a solve failed on a constraint about a metavariable that had been assigned
\* before, and the assignment is still there
C13_Witness ==
    /\ uPc = "idle"
    /\ uLast \in {CannotUnify, OccursCheckFailed}
    /\ uStep.valid /\ ~uStep.ok
    /\ \E m \in DOMAIN uStep.before :
          m \in MVarsOf(uStep.t1) \cup MVarsOf(uStep.t2) /\ uSubst[m] = uStep.before[m]


\* The environment that holds the declarations decls
RECURSIVE EnvOf(_)
EnvOf(decls) ==
    IF decls = <<>> THEN EmptyEnv
    ELSE add_decl(EnvOf(SubSeq(decls, 1, Len(decls) - 1)), decls[Len(decls)]).env

(***************************************************************************)
(* C14: every declaration elaborate_decl has added to the Environment is   *)
(* one that the kernel's check_declaration accepts in the environment it   *)
(* was added to; `def bad : Nat := "hello"` is never added.                *)
(***************************************************************************)
C14_AddedOnlyIfKernelAccepts ==
    \A i \in 1..Len(eAdded) :
        /\ check_declaration(ConverterNew, EnvOf(SubSeq(eAdded, 1, i - 1)), eAdded[i]).ok
        /\ eAdded[i].name # "bad"

(***************************************************************************)
(* C15: elaborate_decl returns Ok only if the unifier's queue has been     *)
(* solved and no metavariable created for the declaration is unassigned.   *)
(***************************************************************************)
C15_OkOnlyIfSolved ==
    (eLast.valid /\ eLast.ok) => (eLast.pending = <<>> /\ eLast.unsolved = {})


(***************************************************************************)
(* C16: infer returns an error for every term in which an MVar occurs.     *)
(***************************************************************************)
C16_MVarTermsRejected == (iLast.valid /\ MVarsOf(iLast.term) # {}) => ~iLast.ok

(***************************************************************************)
(* C19: normalize is idempotent: normalizing the level that normalize      *)
(* returned returns that level again.                                      *)
(***************************************************************************)
C19_NormalizeIdempotent == (lv.valid /\ lv.once # Panicked) => lv.twice = lv.once

\* normalize folded a max of successors of constants
C19_Witness ==
    /\ lv.valid
    /\ lv.id[1] \in {"Max", "IMax"}
    /\ lv.once # lv.id
    /\ lv.once # Panicked
    /\ lv.twice = lv.once

\* The number a level built from zero, constants and successors stands for
RECURSIVE LevelNat(_)
LevelNat(l) ==
    CASE l[1] = "Zero" -> 0
      [] l[1] = "Const" -> U32Value(l[2])
      [] l[1] = "Succ" -> LevelNat(l[2]) + 1

(***************************************************************************)
(* C20: infer(Sort(u)) returns Sort(succ u), and the result is the same    *)
(* term as the Sort of the numerically equal constant level: infer(Sort 0) *)
(* is Sort(constant(1)).                                                   *)
(***************************************************************************)
C20_SortTyping ==
    (iLast.valid /\ iLast.term[1] = "Sort") =>
        /\ iLast.ok
        /\ iLast.val = mk_sort(LSucc(iLast.term[2]))
        /\ iLast.val = mk_sort(constant(U32(LevelNat(iLast.term[2]) + 1)))


(***************************************************************************)
(* C18: for a closed normal value v, whnf of App(Lam(_, body), v) returns  *)
(* what whnf of substitute(body, 0, v) returns, and whnf of the identity   *)
(* lambda applied to the literal Nat 42 is the literal Nat 42.             *)
(***************************************************************************)
C18_BetaEqual ==
    bLast.valid =>
        /\ bLast.app = bLast.direct
        /\ (bLast.body = Var0 /\ bLast.v = mk_nat(42)) => bLast.app = [ok |-> TRUE, val |-> mk_nat(42)]

\* C18 as the code has it: the law holds for every application whose whnf
\* returns Ok; with too little fuel left the application fails where the
\* substituted body, two steps shorter, still reduces.
C18_BetaEqualWhenOk ==
    (bLast.valid /\ bLast.app.ok) =>
        /\ bLast.app = bLast.direct
        /\ (bLast.body = Var0 /\ bLast.v = mk_nat(42)) => bLast.app.val = mk_nat(42)

\* The identity applied to 42 reduced to 42 on a converter with entries in
\* its cache
C18_Witness ==
    /\ bLast.valid
    /\ bLast.body = Var0
    /\ bLast.v = mk_nat(42)
    /\ bLast.before.cache # EmptyCache
    /\ bLast.app = [ok |-> TRUE, val |-> mk_nat(42)]
    /\ bLast.direct = bLast.app


\* is_def_eq relates every term to itself
DefEqReflexive == de.eq.aa

DefEqSymmetric == de.eq.ab => de.eq.ba

DefEqTransitive == (de.eq.ab /\ de.eq.bc) => de.eq.ac

\* Terms built by App, Lam or Pi from pairwise related parts are related
DefEqCongruent ==
    /\ de.eq.ab => (de.eq.app_func /\ de.eq.app_arg /\ de.eq.lam_ty /\ de.eq.pi_ty)
    /\ de.eq.under => (de.eq.lam_body /\ de.eq.pi_body)

(***************************************************************************)
(* C17: for one environment and one context is_def_eq is reflexive,        *)
(* symmetric and transitive, and terms built by the same constructor from  *)
(* pairwise definitionally equal parts are definitionally equal.           *)
(***************************************************************************)
C17_DefEqIsCongruence ==
    de.valid => (DefEqReflexive /\ DefEqSymmetric /\ DefEqTransitive /\ DefEqCongruent)


FairSpecClose == InitCloseX /\ [][CloseNext]_vars /\ CloseFairness

(***************************************************************************)
(* C21: once every AgentRef is dropped and the queue has drained, a recv   *)
(* the agent is waiting in returns MailboxClosed.                          *)
(***************************************************************************)
C21_RecvClosesAfterDrop ==
    (clRefs = {} /\ clQueue = 0 /\ clPc # "idle") ~> (clPc = "idle" /\ clLast = "MailboxClosed")


\* SchedFairness, and tokio polling the stop that awaits the handles
StopFairness ==
    /\ SchedFairness
    /\ WF_vars(StopJoin /\ UNCHANGED <<arenaVars, leaseVars, mailboxVars, quorumVars, convVars, kernelVars, frontVars>>)

FairSpecStop == InitSched /\ [][SchedNext]_vars /\ StopFairness

\* stop has stored false and awaits the handles
StopCalled == ~running /\ handles # {}

\* stop has returned and start has not been called since
Stopped == ~running /\ handles = {} /\ Len(loops) > 0

(***************************************************************************)
(* C22: after stop is called on a running scheduler every worker loop      *)
(* returns and stop returns, and no task is run once stop has returned.    *)
(***************************************************************************)
C22_StopTerminates ==
    /\ StopCalled ~> (handles = {} /\ \A i \in LoopIds : loops[i].pc = "exit")
    /\ [][Stopped => runCount' = runCount]_vars


(***************************************************************************)
(* C23: release(resource, holder) removes the resource's entry if and only *)
(* if holder is the id recorded in it; with any other holder the entry     *)
(* stays as it is, and the entries of the other resources stay in every    *)
(* case.                                                                   *)
(***************************************************************************)
C23_ReleaseOnlyByHolder ==
    [][\A r \in Resources, h \in 1..MaxAcquires :
         Release(r, h) =>
            /\ leases'[r] = IF leases[r] # NoLease /\ leases[r].holder = h
                            THEN NoLease ELSE leases[r]
            /\ \A o \in Resources \ {r} : leases'[o] = leases[o]]_vars

\* A lease was released by its holder while a lease of another holder on
\* another resource is in place
C23_Witness ==
    \E g \in granted :
        /\ g.released
        /\ leases[g.resource] = NoLease
        /\ \E o \in Resources \ {g.resource} : leases[o] # NoLease /\ leases[o].holder # g.holder

(***************************************************************************)
(* C24: once the TTL of a resource's lease has elapsed without a release,  *)
(* the next acquire of the resource succeeds, and the holder id it returns *)
(* differs from the holder id of every earlier lease.                      *)
(***************************************************************************)
C24_AcquireAfterExpiry ==
    [][\A r \in Resources, ttl \in 0..MaxTtl :
         (Acquire(r, ttl) /\ leases[r] # NoLease /\ leases[r].expires <= now) =>
            /\ leases'[r] = [holder |-> agentIdCounter, expires |-> now + ttl]
            /\ agentIdCounter \notin {g.holder : g \in granted}
            /\ \E g \in granted' \ granted : g.resource = r /\ g.holder = agentIdCounter]_vars

\* A resource whose first lease expired unreleased holds a second lease of
\* another holder
C24_Witness ==
    \E g \in granted :
        /\ ~g.released
        /\ g.expires <= now
        /\ leases[g.resource] # NoLease
        /\ leases[g.resource].holder # g.holder
        /\ leases[g.resource].holder \notin {x.holder : x \in granted \ {y \in granted : y.holder = leases[g.resource].holder}}


(***************************************************************************)
(* C25: when quorum succeeds, the collection of responses it returns holds *)
(* at least threshold responses.                                           *)
(***************************************************************************)
C25_OkReturnsResponses == (qpc = "ok") => Len(qResponses) >= qThreshold


(***************************************************************************)
(* C26: add_decl of a declaration whose name is already bound fails with   *)
(* the 'already exists' error and leaves the stored declaration and the    *)
(* rest of the environment unchanged.                                      *)
(***************************************************************************)
C26_DuplicateRejected ==
    (envLast.valid /\ envLast.decl.name \in DOMAIN envLast.before) =>
        /\ ~envLast.ok
        /\ envLast.err = AlreadyExists
        /\ envDecls = envLast.before

\* A declaration was rejected whose name is bound to another declaration,
\* next to a declaration of another name
C26_Witness ==
    /\ envLast.valid
    /\ ~envLast.ok
    /\ envLast.decl.name \in DOMAIN envDecls
    /\ envDecls[envLast.decl.name] # envLast.decl
    /\ DOMAIN envDecls # {envLast.decl.name}

-----------------------------------------------------------------------------

(***************************************************************************)
(* C27: however concurrent intern calls on one SymbolTable interleave, two *)
(* calls return the same SymbolId exactly when they were given the same    *)
(* string.                                                                 *)
(***************************************************************************)
C27_InternInjective ==
    \A p, q \in symRets : (p.id = q.id) <=> (p.s = q.s)

\* Two threads raced on one string: one inserted it, the other found it in
\* the second lookup; a call with another string returned as well
C27_Witness ==
    \E p, q, r \in symRets :
        /\ p.s = q.s /\ p.by # q.by
        /\ p.path = "insert" /\ q.path = "recheck"
        /\ r.s # p.s

-----------------------------------------------------------------------------

(***************************************************************************)
(* C28: when a ContextGuard is dropped, on any exit path, the context has  *)
(* exactly the length and the entries it had when the guard was created,   *)
(* whatever was pushed through the guard.                                  *)
(***************************************************************************)
C28_GuardRestores ==
    [][\A path \in ExitPaths :
          GuardDrop(path) =>
              /\ Len(cgEntries') = Len(cgBefore)
              /\ cgEntries' = cgBefore]_vars

\* A guard made on a non-empty context was dropped while unwinding after
\* two entries were pushed through it
C28_Witness ==
    /\ cgLast.valid
    /\ cgLast.path = "unwinding"
    /\ cgLast.pushed >= 2
    /\ cgLast.before # <<>>
    /\ ~cgGuard.live
    /\ cgEntries = cgLast.before

-----------------------------------------------------------------------------

\* The ids of the agents in the topology
TopologyIds == {topAgents[k] : k \in 1..Len(topAgents)}

\* The agents reached from the agents in S by following one to k neighbour links
RECURSIVE ReachedWithin(_, _)
ReachedWithin(S, k) ==
    IF k = 0 THEN {}
    ELSE LET N == UNION {LET nb == neighbors(topAgents, topConn, a) IN
                         {nb[i] : i \in 1..Len(nb)} : a \in S}
         IN  N \cup ReachedWithin(N, k - 1)

\* Following neighbour links from any agent visits every agent and comes
\* back to where it started
RingClosed ==
    \A a \in TopologyIds : ReachedWithin({a}, Len(topAgents)) = TopologyIds

(***************************************************************************)
(* C29: in a Ring topology the ring is closed after every add_agent: with  *)
(* two or more agents, following neighbour links from any agent visits     *)
(* all agents and returns to the starting agent.                           *)
(***************************************************************************)
C29_RingClosed ==
    (topType = "Ring" /\ Len(topAgents) >= 2) => RingClosed

\* The ring is closed as long as no AgentRef was added a second time
RingClosedWhenDistinct ==
    (/\ topType = "Ring"
     /\ Len(topAgents) >= 2
     /\ Cardinality(TopologyIds) = Len(topAgents)) => RingClosed

-----------------------------------------------------------------------------

(***************************************************************************)
(* C30: an Iso-tagged value cannot be cloned: no operation on a Tracked or *)
(* Message with the Iso capability yields a second live copy of its        *)
(* payload.                                                                *)
(***************************************************************************)
C30_IsoNeverCopied ==
    \A h1, h2 \in 1..Len(capValues) :
        (/\ capValues[h1].live /\ capValues[h2].live
         /\ capValues[h1].cap = "Iso"
         /\ capValues[h1].payload = capValues[h2].payload) => h1 = h2

\* share itself never copies an Iso value, and copies every other one
ShareRespectsUnique ==
    [][\A h \in 1..MaxValues :
          TrackedShare(h) => (capValues' # capValues <=> capValues[h].cap # "Iso")]_vars

-----------------------------------------------------------------------------

\* The source text `a -> b -> c` of three identifiers
ArrowChain(a, b, c) ==
    <<Tok("Ident", a), Tok("Arrow", "->"), Tok("Ident", b), Tok("Arrow", "->"),
      Tok("Ident", c), TokEof>>

\* Application binds tighter than the arrow: `f a -> b` is the arrow from
\* the application f a to b
AppTighterThanArrow ==
    (psLast.done /\ psTokens = <<Tok("Ident", "f"), Tok("Ident", "A"), Tok("Arrow", "->"),
                                 Tok("Ident", "B"), TokEof>>) =>
        psLast.expr = ExprArrow(ExprApp(Ident("f"), <<Ident("A")>>), Ident("B"))

(***************************************************************************)
(* C31: the parser binds application tighter than arrows and parses arrows *)
(* right-associatively: `A -> B -> C` yields Arrow(A, Arrow(B, C)).        *)
(***************************************************************************)
C31_ArrowRightAssoc ==
    /\ AppTighterThanArrow
    /\ \A a, b, c \in {"A", "B", "f"} :
          (psLast.done /\ psTokens = ArrowChain(a, b, c)) =>
              /\ psLast.ok
              /\ psLast.expr = ExprArrow(Ident(a), ExprArrow(Ident(b), Ident(c)))

\* What the parser yields for a chain of two arrows
ArrowLeftAssoc ==
    \A a, b, c \in {"A", "B", "f"} :
        (psLast.done /\ psTokens = ArrowChain(a, b, c)) =>
            /\ psLast.ok
            /\ psLast.expr = ExprArrow(ExprArrow(Ident(a), Ident(b)), Ident(c))

-----------------------------------------------------------------------------

(***************************************************************************)
(* C32: after any sequence of insert calls, repeated inserts of one key    *)
(* included, a NormalizationCache holds at most capacity entries.          *)
(***************************************************************************)
C32_CacheWithinCapacity == Cardinality(DOMAIN nc.cache) <= nc.capacity

-----------------------------------------------------------------------------

(***************************************************************************)
(* C33: under any interleaving of concurrent send calls from several       *)
(* senders, the number of messages queued in a mailbox never exceeds       *)
(* high_water + 1.                                                         *)
(***************************************************************************)
C33_QueueWithinHighWater == Len(queue) <= mbConfig.high_water + 1

\* One sender alone, sending with no receive in between, keeps the queue
\* within high_water + 1
QueueWithinHighWaterAlone ==
    (sentCount["s2"] = 0 /\ received = <<>> /\ rpc = "idle") => C33_QueueWithinHighWater

\* No send and no receive is in progress
MailboxQuiet == rpc = "idle" /\ \A s \in Senders : spc[s] = "idle"

(***************************************************************************)
(* C34: under any interleaving of sends and receives the shared length     *)
(* counter never wraps below zero, and whenever no send or receive is in   *)
(* progress it equals the number of messages queued.                       *)
(***************************************************************************)
C34_LenTracksQueue ==
    /\ len >= 0
    /\ MailboxQuiet => len = Len(queue)

\* The second half alone: at rest the counter is the length of the queue
LenExactWhenQuiet == MailboxQuiet => len = Len(queue)

-----------------------------------------------------------------------------

FairSpecPoll == InitPollX /\ [][PollNext]_vars /\ PollFairness

(***************************************************************************)
(* C35: a task whose future returned Pending when polled is polled again   *)
(* after it is woken and is eventually driven to completion; it is not     *)
(* lost after its first poll.                                              *)
(***************************************************************************)
C35_PendingTaskCompletes ==
    \A task \in PollTaskIds :
        (tkPolls[task] > 0 /\ ~tkReady[task] /\ tkWoken[task] > 0) ~> tkReady[task]

\* No future is polled a second time
PolledAtMostOnce == \A task \in PollTaskIds : tkPolls[task] <= 1

\* A task whose first poll returned Pending is in no queue any more
PendingTaskLeftQueues ==
    \A task \in PollTaskIds :
        (tkPolls[task] > 0 /\ ~tkReady[task]) =>
            \A i \in 1..Len(tkQueue) : tkQueue[i] # task

-----------------------------------------------------------------------------

\* The term with its free variables, those at or above cutoff, raised by d
RECURSIVE ShiftFree(_, _, _)
ShiftFree(term, d, cutoff) ==
    CASE term[1] = "Var" -> IF term[2] >= cutoff THEN mk_var(term[2] + d) ELSE term
      [] term[1] = "App" -> mk_app(ShiftFree(term[2], d, cutoff), ShiftFree(term[3], d, cutoff))
      [] term[1] = "Lam" ->
            mk_lam([term[2] EXCEPT !.ty = ShiftFree(@, d, cutoff)],
                   ShiftFree(term[3], d, cutoff + 1))
      [] term[1] = "Pi" ->
            mk_pi([term[2] EXCEPT !.ty = ShiftFree(@, d, cutoff)],
                  ShiftFree(term[3], d, cutoff + 1))
      [] term[1] = "Let" ->
            mk_let([term[2] EXCEPT !.ty = ShiftFree(@, d, cutoff)],
                   ShiftFree(term[3], d, cutoff),
                   ShiftFree(term[4], d, cutoff + 1))
      [] OTHER -> term

\* Substitution as the claim states it: Var(idx) is replaced, idx goes up
\* by one under each binder, and the replacement's free variables go up by
\* the number of binders crossed
RECURSIVE ShiftingSubst(_, _, _, _)
ShiftingSubst(term, idx, replacement, crossed) ==
    CASE term[1] = "Var" ->
            IF term[2] = idx THEN ShiftFree(replacement, crossed, 0) ELSE term
      [] term[1] = "App" ->
            mk_app(ShiftingSubst(term[2], idx, replacement, crossed),
                   ShiftingSubst(term[3], idx, replacement, crossed))
      [] term[1] = "Lam" ->
            mk_lam([term[2] EXCEPT !.ty = ShiftingSubst(@, idx, replacement, crossed)],
                   ShiftingSubst(term[3], idx + 1, replacement, crossed + 1))
      [] term[1] = "Pi" ->
            mk_pi([term[2] EXCEPT !.ty = ShiftingSubst(@, idx, replacement, crossed)],
                  ShiftingSubst(term[3], idx + 1, replacement, crossed + 1))
      [] term[1] = "Let" ->
            mk_let([term[2] EXCEPT !.ty = ShiftingSubst(@, idx, replacement, crossed)],
                   ShiftingSubst(term[3], idx, replacement, crossed),
                   ShiftingSubst(term[4], idx + 1, replacement, crossed + 1))
      [] OTHER -> term

(***************************************************************************)
(* C36: substitute(term, idx, replacement) replaces Var(idx), increments   *)
(* idx under each binder and shifts the free variables of replacement by   *)
(* the number of binders crossed: capture-avoiding de Bruijn substitution. *)
(***************************************************************************)
C36_SubstituteShifts ==
    sbLast.done => sbLast.result = ShiftingSubst(sbTerm, sbIdx, sbReplacement, 0)

\* For a replacement without free variables the code's result is the
\* shifting substitution
SubstituteClosedReplacement ==
    (sbLast.done /\ ShiftFree(sbReplacement, 1, 0) = sbReplacement) =>
        sbLast.result = ShiftingSubst(sbTerm, sbIdx, sbReplacement, 0)

-----------------------------------------------------------------------------

\* The two levels normalize, in a build that does or does not check
\* overflow, to the same LevelId
SameNormalForm(l1, l2) ==
    \E overflow_checks \in BOOLEAN :
        /\ normalize(overflow_checks, l1) # Panicked
        /\ normalize(overflow_checks, l1) = normalize(overflow_checks, l2)

(***************************************************************************)
(* C37: is_def_eq on Sort(l1) and Sort(l2) returns true exactly when l1    *)
(* and l2 normalize to the same LevelId.                                   *)
(***************************************************************************)
C37_SortEqIsNormalizedEq ==
    seLast.done =>
        /\ seLast.ok
        /\ seLast.val = TRUE <=> SameNormalForm(seLeft, seRight)

\* What the code decides: sorts are equal exactly when their LevelIds are
SortEqIsLevelIdEq ==
    seLast.done => (seLast.ok /\ (seLast.val = TRUE <=> seLeft = seRight))

\* One direction of the claim: sorts found equal have levels with one
\* normal form
SortEqImpliesNormalizedEq ==
    (seLast.done /\ seLast.ok /\ seLast.val = TRUE /\ normalize(FALSE, seLeft) # Panicked)
        => normalize(FALSE, seLeft) = normalize(FALSE, seRight)

-----------------------------------------------------------------------------
\* The metavariables reached from those of ms by following at most n
\* assignments
RECURSIVE FollowAssignments(_, _, _)
FollowAssignments(subst, ms, n) ==
    IF n = 0 THEN ms
    ELSE FollowAssignments(subst,
            ms \cup UNION {MVarsOf(subst[m]) : m \in ms \cap DOMAIN subst}, n - 1)

\* The metavariables in the term assigned to mvar, and in the terms assigned
\* to those, and so on
ReachedFrom(subst, mvar) ==
    FollowAssignments(subst, MVarsOf(subst[mvar]), Cardinality(DOMAIN subst))

Acyclic(subst) == \A m \in DOMAIN subst : m \notin ReachedFrom(subst, m)

(***************************************************************************)
(* C38: after any sequence of unify and solve calls the substitution of    *)
(* the unifier is acyclic: following the assignments from a metavariable   *)
(* through the terms they are assigned to never leads back to it.          *)
(***************************************************************************)
C38_SubstAcyclic == Acyclic(uSubst)

\* solve has made an assignment and then refused one that would have closed
\* a cycle through it
C38_Witness ==
    /\ uPc = "idle"
    /\ uLast = OccursCheckFailed
    /\ uStep.valid /\ ~uStep.ok
    /\ uSubst # EmptySubst
    /\ \E m \in DOMAIN uSubst : MVarsOf(uSubst[m]) # {}
    /\ \E m \in MVarsOf(uStep.t1) \cup MVarsOf(uStep.t2) :
          m \notin DOMAIN uSubst /\ \E a \in DOMAIN uSubst : m \in ReachedFrom(uSubst, a)

\* A call of solve that has been entered goes on with its loop
SolveFairness ==
    /\ WF_vars(SolveStepUnify /\ UNCHANGED <<coreVars, elabVars, inferVars, levelVars, betaVars, defEqVars, closeVars, envVars, symbolVars, guardVars, topologyVars, capsVars, parserVars, ncacheVars, pollVars, substVars, sortEqVars>>)
    /\ WF_vars(SolveStepIsSort /\ UNCHANGED <<coreVars, elabVars, inferVars, levelVars, betaVars, defEqVars, closeVars, envVars, symbolVars, guardVars, topologyVars, capsVars, parserVars, ncacheVars, pollVars, substVars, sortEqVars>>)
    /\ WF_vars(SolveStepHasType /\ UNCHANGED <<coreVars, elabVars, inferVars, levelVars, betaVars, defEqVars, closeVars, envVars, symbolVars, guardVars, topologyVars, capsVars, parserVars, ncacheVars, pollVars, substVars, sortEqVars>>)
    /\ WF_vars(SolveReturn /\ UNCHANGED <<coreVars, elabVars, inferVars, levelVars, betaVars, defEqVars, closeVars, envVars, symbolVars, guardVars, topologyVars, capsVars, parserVars, ncacheVars, pollVars, substVars, sortEqVars>>)

FairSpecUnifier == Init /\ [][UnifierNext]_vars /\ SolveFairness

(***************************************************************************)
(* C39: solve terminates for every finite set of queued constraints: it    *)
(* returns Ok with an empty queue, or it returns an error.                 *)
(***************************************************************************)
C39_SolveTerminates == (uPc = "solving") ~> (uPc = "idle")

\* solve took IsSort of an unassigned metavariable from the queue
DeferredSort ==
    \E i \in 1..Len(uConstraints) :
        /\ uConstraints[i][1] = "IsSort"
        /\ apply_subst(uSubst, uConstraints[i][2])[1] = "MVar"

\* A call of solve returns unless the queue holds IsSort of a metavariable
\* that has no assignment
SolveTerminatesWithoutDeferral ==
    (uPc = "solving") ~> (uPc = "idle" \/ DeferredSort)

-----------------------------------------------------------------------------
\* The worker loops that have been spawned and have not returned
AliveLoops == {i \in LoopIds : loops[i].pc # "exit"}

(***************************************************************************)
(* C40: for any interleaving of start and stop calls on a Scheduler, start *)
(* is idempotent while running: at most worker_count worker loops are      *)
(* alive at any time.                                                      *)
(***************************************************************************)
C40_AliveWithinWorkerCount == Cardinality(AliveLoops) <= workerCount

\* A start while the scheduler runs spawns nothing
NoSpawnWhileRunning == [][running => Len(loops') = Len(loops)]_vars

=============================================================================
